---------------------------- MODULE Spec2Model ----------------------------
(***************************************************************************)
(* A model of the AgnusAi pull-request reviewer:                           *)
(*   - the diff engine of the Azure DevOps adapter (computeFileDiff,       *)
(*     lcsEdits, buildHunks),                                              *)
(*   - the precision filter (filterByConfidence),                          *)
(*   - PRReviewAgent.review / postReview and the adapter's submitReview,   *)
(*   - the CLI review command,                                             *)
(*   - the webhook server with its background tasks and the graph cache,   *)
(*   - the symbol graph (bfs, getBlastRadius, removeFile, resolveNames),   *)
(*   - the Retriever's getReviewContext,                                   *)
(*   - the feedback route and the index status stream,                     *)
(*   - the graph cache under DELETE /api/repos/:id,                        *)
(*   - the LLM response parser (parseCommentBlocks),                       *)
(*   - runReview, the API layer's bridge to the agent,                     *)
(*   - the memory store's importRules and exportRules.                     *)
(* Every part has its own specification (SpecDiff, SpecHunks, SpecFilter,  *)
(* SpecPost, SpecAgent, SpecCli, SpecServer, SpecBfs, SpecTraverse,        *)
(* SpecBlast, SpecIndex, SpecRetriever, SpecFeedback, SpecSse, SpecEvict,  *)
(* SpecParse, SpecRunReview, SpecMemory); the variables of the other parts *)
(* stay idle.                                                              *)
(***************************************************************************)
EXTENDS Integers, Sequences, FiniteSets, TLC

VARIABLES
  \* diff engine
  dOld, dNew, dResult, dPc,
  \* precision filter
  fComments, fThreshold, fResult, fPc,
  \* review agent and host
  prDiff, llmResponse, lastDiff, pResult, pSubmitted, hostCalls, pPc, pRun, pCallsBefore,
  \* CLI review command
  cOpts, hostHead, hostCheckpoint, cStart, cOutcome,
  \* webhook server
  sSecret, sLast, tasks, cache, entries, snapshot, sBoundaries, sApplied,
  \* symbol graph queries
  gSymbols, gEdges, gSeeds, gResults, gBlast, gPc,
  \* symbol graph under an incremental update
  iDisk, iGraph, iFile, iBefore, iOld, iPc,
  \* Retriever.getReviewContext: the graph, the changed files, the depth, the embedding adapter, the rows the search returned, the context returned
  rGraph, rChanged, rDepth, rEmbeddings, rResults, rContext,
  \* feedback route: the review_feedback table, the table before the last request, the last request, its reply
  fStore, fBefore, fRequest, fReply,
  \* index status stream: the full-index task, files parsed, the progress store's entry, the stream, what the client received, whether it joined during the index
  sseIndex, sseParsed, sseStore, sseStream, sseReceived, sseJoined,
  \* repo deletion: whether the cache holds the repo, whether DELETE has completed, the operations in flight
  repoCached, repoDeleted, cacheOps,
  \* response parser: the blocks of the LLM response, the comments parsed from it
  lResponse, lParsed,
  \* graph traversal: the hops asked for, the callers and the callees returned
  tHops, tCallers, tCallees,
  \* runReview: its position, the review context handed to the LLM backend, whether the review was posted
  vPc, vLlmContext, vPosted,
  \* one PRReviewAgent used for several PRs: the diff of each PR on the host, the cached diff, the last postReview, the calls made
  aDiffs, aLastDiff, aPost, aCalls,
  \* memory store: the rule files, the YAML last imported, the store before the last import, the count the last import returned, the position
  mStore, mYaml, mBefore, mCount, mPc

diffVars   == <<dOld, dNew, dResult, dPc>>
filterVars == <<fComments, fThreshold, fResult, fPc>>
postVars   == <<prDiff, llmResponse, lastDiff, pResult, pSubmitted, hostCalls, pPc, pRun, pCallsBefore>>
cliVars    == <<cOpts, hostHead, hostCheckpoint, cStart, cOutcome>>
srvVars    == <<sSecret, sLast, tasks, cache, entries, snapshot, sBoundaries, sApplied>>
graphVars  == <<gSymbols, gEdges, gSeeds, gResults, gBlast, gPc>>
indexVars  == <<iDisk, iGraph, iFile, iBefore, iOld, iPc>>
retrVars   == <<rGraph, rChanged, rDepth, rEmbeddings, rResults, rContext>>
fbVars     == <<fStore, fBefore, fRequest, fReply>>
sseVars    == <<sseIndex, sseParsed, sseStore, sseStream, sseReceived, sseJoined>>
evictVars  == <<repoCached, repoDeleted, cacheOps>>
parseVars  == <<lResponse, lParsed>>
travVars   == <<tHops, tCallers, tCallees>>
runVars    == <<vPc, vLlmContext, vPosted>>
agentVars  == <<aDiffs, aLastDiff, aPost, aCalls>>
memVars    == <<mStore, mYaml, mBefore, mCount, mPc>>

Null == "null"

Max(a, b) == IF a >= b THEN a ELSE b
Min(a, b) == IF a <= b THEN a ELSE b

RECURSIVE SeqsUpTo(_, _)
\* all sequences over S of length 0..n
SeqsUpTo(S, n) ==
  IF n = 0 THEN {<<>>}
  ELSE LET shorter == SeqsUpTo(S, n - 1)
       IN shorter \cup {Append(s, x) : s \in {t \in shorter : Len(t) = n - 1}, x \in S}

(***************************************************************************)
(*                             DIFF ENGINE                                 *)
(*               src/src/adapters/vcs/azure-devops.ts:191-292              *)
(***************************************************************************)

\* longest file (in lines) the model diffs
MaxLines == 3
\* the lines a file is made of; "" is the empty line
LineAlphabet == {"", "a", "b"}
\* m * n above which lcsEdits gives up; the code's 600_000 (line 218) scaled
\* to the model's file sizes so that both branches are taken
LcsCellLimit == 6
\* buildHunks(edits, 3)
HunkContext == 3

\* A file content is the non-empty sequence of its lines (the text between
\* the "\n"s); the empty string is the one line "".
Contents == SeqsUpTo(LineAlphabet, MaxLines) \ {<<>>}

\* content ? content.split('\n') : []
SplitLines(content) == IF content = <<"">> THEN <<>> ELSE content

EqualEdit(i, j, oldLines)  == [type |-> "equal", oldLine |-> i, newLine |-> j, content |-> oldLines[i]]
RemoveEdit(i, oldLines) == [type |-> "remove", oldLine |-> i, newLine |-> 0, content |-> oldLines[i]]

\* the add edit with the content of the neighbouring line (an index slip)
AddEditShifted(j, newLines) ==
  [type |-> "add", oldLine |-> 0, newLine |-> j,
   content |-> newLines[IF j < Len(newLines) THEN j + 1 ELSE 1]]

AddEdit(j, newLines) == [type |-> "add", oldLine |-> 0, newLine |-> j, content |-> newLines[j]]

\* all of old removed, then all of new added
FullReplacement(oldLines, newLines) ==
  [i \in 1..Len(oldLines) |-> RemoveEdit(i, oldLines)]
    \o [j \in 1..Len(newLines) |-> AddEdit(j, newLines)]

\* dp[i][j] = length of the longest common subsequence of the first i old
\* lines and the first j new lines
LcsTable(oldLines, newLines) ==
  LET dp[i \in 0..Len(oldLines), j \in 0..Len(newLines)] ==
        IF i = 0 \/ j = 0 THEN 0
        ELSE IF oldLines[i] = newLines[j] THEN dp[i - 1, j - 1] + 1
        ELSE Max(dp[i - 1, j], dp[i, j - 1])
  IN dp

RECURSIVE Backtrack(_, _, _, _, _)
\* the while loop of lcsEdits: each step unshifts one edit, so the edits of
\* the remaining prefix come first
Backtrack(dp, oldLines, newLines, i, j) ==
  IF i = 0 /\ j = 0 THEN <<>>
  ELSE IF i > 0 /\ j > 0 /\ oldLines[i] = newLines[j]
    THEN Append(Backtrack(dp, oldLines, newLines, i - 1, j - 1), EqualEdit(i, j, oldLines))
  ELSE IF j > 0 /\ (i = 0 \/ dp[i, j - 1] >= dp[i - 1, j])
    THEN Append(Backtrack(dp, oldLines, newLines, i, j - 1), AddEdit(j, newLines))
  ELSE Append(Backtrack(dp, oldLines, newLines, i - 1, j), RemoveEdit(i, oldLines))

lcsEdits(oldLines, newLines) ==
  LET m == Len(oldLines)
      n == Len(newLines)
  IN IF m * n > LcsCellLimit
       THEN FullReplacement(oldLines, newLines)
       ELSE Backtrack(LcsTable(oldLines, newLines), oldLines, newLines, m, n)

IsChange(e)    == e.type # "equal"
IsAdd(e)       == e.type = "add"
IsRemove(e)    == e.type = "remove"
NotAdd(e)      == e.type # "add"
NotRemove(e)   == e.type # "remove"

RECURSIVE MergeRangesShortWindow(_, _, _, _)
\* the loop with a window that ends one line early
MergeRangesShortWindow(edits, context, k, ranges) ==
  IF k > Len(edits) THEN ranges
  ELSE IF ~IsChange(edits[k]) THEN MergeRangesShortWindow(edits, context, k + 1, ranges)
  ELSE LET start == Max(1, k - context)
           end   == Min(Len(edits), k + context - 1)
           last  == Len(ranges)
       IN IF last > 0 /\ ranges[last][2] >= start - 1
            THEN MergeRangesShortWindow(edits, context, k + 1, [ranges EXCEPT ![last] = <<@[1], end>>])
            ELSE MergeRangesShortWindow(edits, context, k + 1, Append(ranges, <<start, end>>))

RECURSIVE MergeRangesNeverMerged(_, _, _, _)
\* the loop with a range of its own for every change
MergeRangesNeverMerged(edits, context, k, ranges) ==
  IF k > Len(edits) THEN ranges
  ELSE IF ~IsChange(edits[k]) THEN MergeRangesNeverMerged(edits, context, k + 1, ranges)
  ELSE MergeRangesNeverMerged(edits, context, k + 1,
         Append(ranges, <<Max(1, k - context), Min(Len(edits), k + context)>>))

RECURSIVE MergeRanges(_, _, _, _)
\* the loop over changedIdxs (indices 1-based here): a window that touches
\* or overlaps the last range extends it
MergeRanges(edits, context, k, ranges) ==
  IF k > Len(edits) THEN ranges
  ELSE IF ~IsChange(edits[k]) THEN MergeRanges(edits, context, k + 1, ranges)
  ELSE LET start == Max(1, k - context)
           end   == Min(Len(edits), k + context)
           last  == Len(ranges)
       IN IF last > 0 /\ ranges[last][2] >= start - 1
            THEN MergeRanges(edits, context, k + 1, [ranges EXCEPT ![last] = <<@[1], end>>])
            ELSE MergeRanges(edits, context, k + 1, Append(ranges, <<start, end>>))

\* slice.find(e => e.oldLine > 0)?.oldLine ?? 1
FirstOldLine(slice) ==
  LET hits == {k \in 1..Len(slice) : slice[k].oldLine > 0}
  IN IF hits = {} THEN 1
     ELSE slice[CHOOSE k \in hits : \A h \in hits : k <= h].oldLine

\* slice.find(e => e.newLine > 0)?.newLine ?? 1
FirstNewLine(slice) ==
  LET hits == {k \in 1..Len(slice) : slice[k].newLine > 0}
  IN IF hits = {} THEN 1
     ELSE slice[CHOOSE k \in hits : \A h \in hits : k <= h].newLine

\* one hunk; body keeps the edits of the slice, whose type is the line's
\* leading "+", "-" or " "
MakeHunk(edits, range) ==
  LET slice == SubSeq(edits, range[1], range[2])
  IN [oldStart |-> FirstOldLine(slice),
      oldLines |-> Len(SelectSeq(slice, NotAdd)),
      newStart |-> FirstNewLine(slice),
      newLines |-> Len(SelectSeq(slice, NotRemove)),
      body     |-> slice]

buildHunks(edits, context) ==
  LET ranges == MergeRanges(edits, context, 1, <<>>)
  IN [r \in 1..Len(ranges) |-> MakeHunk(edits, ranges[r])]

computeFileDiff(oldContent, newContent) ==
  LET oldLines == SplitLines(oldContent)
      newLines == SplitLines(newContent)
      edits    == lcsEdits(oldLines, newLines)
  IN IF Len(oldLines) = 0 /\ Len(newLines) = 0
       THEN [additions |-> 0, deletions |-> 0, hunks |-> <<>>, edits |-> <<>>]
       ELSE [additions |-> Len(SelectSeq(edits, IsAdd)),
             deletions |-> Len(SelectSeq(edits, IsRemove)),
             hunks     |-> buildHunks(edits, HunkContext),
             edits     |-> edits]

NoDiff == [additions |-> 0, deletions |-> 0, hunks |-> <<>>, edits |-> <<>>]

DiffIdle == dOld = <<"">> /\ dNew = <<"">> /\ dResult = NoDiff /\ dPc = "idle"

DiffInit ==
  /\ dOld \in Contents
  /\ dNew \in Contents
  /\ dResult = NoDiff
  /\ dPc = "input"

\* getFileDiff: the two snapshots are diffed
ComputeFileDiff ==
  /\ dPc = "input"
  /\ dResult' = computeFileDiff(dOld, dNew)
  /\ dPc' = "done"
  /\ UNCHANGED <<dOld, dNew>>


\* Applying an edit script to the line sequence A: an equal keeps the next
\* line of A, a remove deletes it, an add inserts its content.  The script
\* fits A only when every equal and remove names the line it meets.
RECURSIVE ApplyEdits(_, _, _, _)
ApplyEdits(edits, A, k, acc) ==
  IF k > Len(edits) THEN [out |-> acc.out, pos |-> acc.pos, fits |-> acc.fits /\ acc.pos = Len(A) + 1]
  ELSE LET e == edits[k]
       IN IF e.type = "add"
            THEN ApplyEdits(edits, A, k + 1, [acc EXCEPT !.out = Append(@, e.content)])
          ELSE IF acc.pos > Len(A) \/ A[acc.pos] # e.content \/ e.oldLine # acc.pos
            THEN [out |-> acc.out, pos |-> acc.pos, fits |-> FALSE]
          ELSE IF e.type = "equal"
            THEN ApplyEdits(edits, A, k + 1, [acc EXCEPT !.out = Append(@, e.content), !.pos = @ + 1])
          ELSE ApplyEdits(edits, A, k + 1, [acc EXCEPT !.pos = @ + 1])

Patched(edits, A) == ApplyEdits(edits, A, 1, [out |-> <<>>, pos |-> 1, fits |-> TRUE])

(***************************************************************************)
(*                          PRECISION FILTER                               *)
(*                      src/unnamed/part_002:94-169                        *)
(***************************************************************************)

\* most comments in one LLM response
MaxComments == 2

\* an absent number (comment.confidence, config.threshold): no tenth is negative
Undefined == -1

\* confidences and thresholds are counted in tenths: 7 is 0.7
ConfidenceValues == {Undefined, 2, 5, 6, 7, 9}
\* config.threshold, Undefined when the caller's config has no threshold
ThresholdValues == {Undefined, 3, 5, 8}

\* DEFAULT_CONFIG.threshold
DefaultThreshold == 7
\* comment.confidence ?? 0.5
NeutralConfidence == 5

\* { ...DEFAULT_CONFIG, ...config }.threshold
FinalThreshold(threshold) == IF threshold = Undefined THEN DefaultThreshold ELSE threshold

\* comment.confidence ?? 0.5
EffectiveConfidence(comment) ==
  IF comment.confidence = Undefined THEN NeutralConfidence ELSE comment.confidence

filterByConfidence(comments, threshold) ==
  LET T == FinalThreshold(threshold)
      Passes(c) == EffectiveConfidence(c) >= T
      Fails(c)  == ~Passes(c)
      passed  == SelectSeq(comments, Passes)
  IN [passed       |-> passed,
      dropped      |-> SelectSeq(comments, Fails),
      emptyMessage |-> (Len(passed) = 0)]

FilterComments == {[confidence |-> c] : c \in ConfidenceValues}

NoFilterResult == [passed |-> <<>>, dropped |-> <<>>, emptyMessage |-> FALSE]

FilterIdle ==
  fComments = <<>> /\ fThreshold = Undefined /\ fResult = NoFilterResult /\ fPc = "idle"

FilterInit ==
  /\ fComments \in SeqsUpTo(FilterComments, MaxComments)
  /\ fThreshold \in ThresholdValues
  /\ fResult = NoFilterResult
  /\ fPc = "input"

FilterByConfidence ==
  /\ fPc = "input"
  /\ fResult' = filterByConfidence(fComments, fThreshold)
  /\ fPc' = "done"
  /\ UNCHANGED <<fComments, fThreshold>>

(***************************************************************************)
(*                 REVIEW AGENT: review, postReview                        *)
(*                         src/src/index.ts:27-129                         *)
(*             AzureDevOpsAdapter.submitReview, addInlineComment           *)
(*              src/src/adapters/vcs/azure-devops.ts:369-463               *)
(***************************************************************************)

\* highest line number of a file of the PR
MaxLine == 2
\* most comments in one LLM review
MaxReviewComments == 2
\* most runs of the reviewer on one PR
MaxRuns == 2

\* an optional value: <<>> is null, <<x>> is x
None == <<>>
Some(x) == <<x>>

\* A path is a file name with or without one leading "/": Azure DevOps
\* sends "/a.ts", GitHub and most LLM answers "a.ts".
Path(lead, name) == [lead |-> lead, name |-> name]

\* path.replace(/^\//, '')
Normalise(path) == [path EXCEPT !.lead = FALSE]

\* the files of the PR, in the order of diff.files; plus is the set of the
\* new-file line numbers of the '+' lines of the file's hunks
DiffsOfPR ==
  {[files |-> files] :
     files \in {<<[path |-> Path(lead, "a.ts"), plus |-> plusA]>> :
                  lead \in BOOLEAN, plusA \in SUBSET (1..MaxLine)}
          \cup {<<[path |-> Path(lead, "a.ts"), plus |-> plusA],
                  [path |-> Path(lead, "b.ts"), plus |-> {1}]>> :
                  lead \in BOOLEAN, plusA \in SUBSET (1..MaxLine)}}

\* the comments an LLM may write: on any line of a.ts, with or without the
\* leading slash, and on c.ts, a file of no diff
CommentChoices ==
  {[path |-> Path(FALSE, "a.ts"), line |-> l, body |-> "x"] : l \in 1..MaxLine}
    \cup {[path |-> Path(TRUE, "a.ts"), line |-> 1, body |-> "x"],
          [path |-> Path(FALSE, "c.ts"), line |-> 1, body |-> "x"]}

Verdicts == {"approve", "request_changes", "comment"}

ReviewResults ==
  {[summary |-> "s", comments |-> cs, verdict |-> v] :
     cs \in SeqsUpTo(CommentChoices, MaxReviewComments), v \in Verdicts}

\* diffPathMap: normalised -> original; a later file of diff.files
\* overwrites an earlier one with the same normalised path
DiffPathMapHas(diff, normalised) ==
  \E k \in 1..Len(diff.files) : Normalise(diff.files[k].path) = normalised

DiffPathMapGet(diff, normalised) ==
  LET hits == {k \in 1..Len(diff.files) : Normalise(diff.files[k].path) = normalised}
  IN diff.files[CHOOSE k \in hits : \A h \in hits : h <= k].path

\* the comment as posted although its path is not rewritten
KeepCommentPath(diff, comment) == comment

\* { ...comment, path: resolvedPath }
ResolveComment(diff, comment) ==
  [comment EXCEPT !.path = DiffPathMapGet(diff, Normalise(comment.path))]

RECURSIVE ValidComments(_, _)
\* the loop of postReview over result.comments
ValidComments(diff, comments) ==
  IF comments = <<>> THEN <<>>
  ELSE IF ~DiffPathMapHas(diff, Normalise(Head(comments).path))
    THEN ValidComments(diff, Tail(comments))
  ELSE <<ResolveComment(diff, Head(comments))>> \o ValidComments(diff, Tail(comments))

\* this.lastDiff ?? await this.vcs.getDiff(prId)
DiffForPost(cached, hostDiff) == IF cached # None THEN cached[1] ELSE hostDiff

\* Azure DevOps requires filePath to start with /
ThreadFilePath(path) == [path EXCEPT !.lead = TRUE]

InlineCall(c) ==
  [kind |-> "inline", path |-> ThreadFilePath(c.path), line |-> c.line, body |-> c.body, vote |-> 0]
SummaryCall(review) ==
  [kind |-> "summary", path |-> Path(FALSE, ""), line |-> 0, body |-> review.summary, vote |-> 0]
VoteCall(v) ==
  [kind |-> "vote", path |-> Path(FALSE, ""), line |-> 0, body |-> "", vote |-> v]

VoteMap == [approve |-> 10, request_changes |-> -5, comment |-> 0]

\* What the host does with one request of submitReview: it serves every
\* request (at = 0), or it fails the request numbered at, either by
\* answering with an error status ("refused") or by the request itself
\* failing ("rejected").  Requests are numbered: the inline comments
\* 1..n, the summary n + 1, the vote n + 2.
Faults(n) ==
  {[at |-> 0, how |-> "none"]}
    \cup {[at |-> k, how |-> h] : k \in 1..(n + 2), h \in {"refused", "rejected"}}

\* submitReview: the requests the host has served and whether the call
\* threw.  addInlineComment throws on either failure; the summary and the
\* vote are awaited without a look at the response.
submitReview(review, fault) ==
  LET n          == Len(review.comments)
      inlineDone == IF fault.at \in 1..n THEN fault.at - 1 ELSE n
      inlines    == [k \in 1..inlineDone |-> InlineCall(review.comments[k])]
      inlineThrew  == fault.at \in 1..n
      summaryThrew == fault.at = n + 1 /\ fault.how = "rejected"
      summary    == IF inlineThrew \/ fault.at = n + 1 THEN <<>> ELSE <<SummaryCall(review)>>
      wantsVote  == VoteMap[review.verdict] # 0
      voteThrew  == wantsVote /\ fault.at = n + 2 /\ fault.how = "rejected"
      vote       == IF inlineThrew \/ summaryThrew \/ ~wantsVote \/ fault.at = n + 2
                      THEN <<>> ELSE <<VoteCall(VoteMap[review.verdict])>>
  IN [served |-> inlines \o summary \o vote,
      threw  |-> inlineThrew \/ summaryThrew \/ voteThrew]

NoReview == [summary |-> "", comments |-> <<>>, verdict |-> "comment"]

PostIdle ==
  /\ prDiff = [files |-> <<>>] /\ llmResponse = NoReview /\ lastDiff = None
  /\ pResult = None /\ pSubmitted = None /\ hostCalls = <<>> /\ pPc = "idle"
  /\ pRun = 0 /\ pCallsBefore = 0

\* new PRReviewAgent(config) for a PR of the host
PostInit ==
  /\ prDiff \in DiffsOfPR
  /\ llmResponse \in ReviewResults
  /\ lastDiff = None
  /\ pResult = None
  /\ pSubmitted = None
  /\ hostCalls = <<>>
  /\ pPc = "start"
  /\ pRun = 1
  /\ pCallsBefore = 0

\* agent.review(prId), the LLM answering
Review ==
  /\ pPc = "start"
  /\ pResult' = Some(llmResponse)
  /\ lastDiff' = Some(prDiff)
  /\ pPc' = "reviewed"
  /\ UNCHANGED <<prDiff, llmResponse, pSubmitted, hostCalls, pRun, pCallsBefore>>

\* agent.review(prId), llm.generateReview throwing: lastDiff is not set
ReviewFails ==
  /\ pPc = "start"
  /\ pPc' = "failed"
  /\ UNCHANGED <<prDiff, llmResponse, lastDiff, pResult, pSubmitted, hostCalls, pRun, pCallsBefore>>

\* agent.postReview(prId, result)
PostReview ==
  /\ pPc = "reviewed"
  /\ LET result == pResult[1]
         diff   == DiffForPost(lastDiff, prDiff)
         review == [summary  |-> result.summary,
                    comments |-> ValidComments(diff, result.comments),
                    verdict  |-> result.verdict]
     IN \E fault \in Faults(Len(review.comments)) :
          LET out == submitReview(review, fault)
          IN /\ pSubmitted' = Some(review)
             /\ hostCalls' = hostCalls \o out.served
             /\ pPc' = IF out.threw THEN "failed" ELSE "posted"
  /\ UNCHANGED <<prDiff, llmResponse, lastDiff, pResult, pRun, pCallsBefore>>

\* the reviewer is started again on the same PR (a new process, a new
\* agent) and the LLM gives the same answer
RunAgain ==
  /\ pPc \in {"posted", "failed"}
  /\ pRun < MaxRuns
  /\ pRun' = pRun + 1
  /\ pCallsBefore' = Len(hostCalls)
  /\ lastDiff' = None
  /\ pResult' = None
  /\ pSubmitted' = None
  /\ pPc' = "start"
  /\ UNCHANGED <<prDiff, llmResponse, hostCalls>>

(***************************************************************************)
(*                        CLI: the review command                          *)
(*                         src/src/cli.ts:27-136                           *)
(* PRReviewAgent.incrementalReview is called here and defined nowhere in   *)
(* the sources at hand; it is modelled from the specification (4.6, "Flow  *)
(* (incremental)", and 6.5).                                               *)
(***************************************************************************)

\* commits the PR head may move through
MaxSha == 2
\* most comments in the LLM answer of a CLI run
MaxCliComments == 1

CliOptions ==
  [incremental : BOOLEAN, vcs : {"github", "azure"}, dryRun : BOOLEAN, forceFull : BOOLEAN]

NoOptions == [incremental |-> FALSE, vcs |-> "github", dryRun |-> FALSE, forceFull |-> FALSE]

\* the flag is read as if --incremental were never given
CliNeverIncremental(opts) == FALSE

\* options.incremental && options.vcs === 'github'
CliUsesIncremental(opts) == opts.incremental /\ opts.vcs = "github"

\* the checkpoint comment of the PR: the sha reviewed last and whether its
\* JSON still parses
Checkpoint(sha, ok) == [sha |-> sha, ok |-> ok]

NoNewCommits == [summary |-> "No new commits since last review", comments |-> <<>>, verdict |-> "comment"]

\* incrementalReview(prId, {forceFull, skipCheckpoint}): a missing or
\* malformed checkpoint, or forceFull, gives a full review; a checkpoint at
\* the head gives "no new commits" without a review; otherwise the commits
\* since the checkpoint are reviewed.  The checkpoint is upserted at the
\* head reviewed unless skipCheckpoint.
incrementalReview(opts, head, checkpoint, response, diff) ==
  LET usable   == checkpoint # None /\ checkpoint[1].ok /\ ~opts.forceFull
      upToDate == usable /\ checkpoint[1].sha = head
  IN [result     |-> IF upToDate THEN NoNewCommits ELSE response,
      cached     |-> IF upToDate THEN None ELSE Some(diff),
      checkpoint |-> IF upToDate \/ opts.dryRun THEN checkpoint ELSE Some(Checkpoint(head, TRUE)),
      outcome    |-> IF upToDate THEN "no new commits"
                     ELSE IF usable THEN "incremental" ELSE "full"]

\* the diff the host gives for the PR: Azure DevOps paths lead with "/"
CliDiff(opts) == [files |-> <<[path |-> Path(opts.vcs = "azure", "a.ts"), plus |-> {1}]>>]

CliResponses ==
  {r \in ReviewResults : Len(r.comments) <= MaxCliComments /\ r.verdict = "comment"}

NoStart == [head |-> 0, checkpoint |-> None]

CliIdle ==
  /\ cOpts = NoOptions /\ hostHead = 0 /\ hostCheckpoint = None
  /\ cStart = NoStart /\ cOutcome = ""

\* the command is started on a PR that may carry a checkpoint of an
\* earlier review
CliInit ==
  /\ cOpts \in CliOptions
  /\ hostHead = 1
  /\ hostCheckpoint \in {None, Some(Checkpoint(1, TRUE))}
  /\ cStart = [head |-> 1, checkpoint |-> hostCheckpoint]
  /\ cOutcome = ""
  /\ prDiff = CliDiff(cOpts)
  /\ llmResponse \in CliResponses
  /\ lastDiff = None
  /\ pResult = None
  /\ pSubmitted = None
  /\ hostCalls = <<>>
  /\ pPc = "start"
  /\ pRun = 1
  /\ pCallsBefore = 0

\* cli.ts:102-114: agent.incrementalReview or agent.review
CliReview ==
  /\ pPc = "start"
  /\ IF CliUsesIncremental(cOpts)
       THEN LET r == incrementalReview(cOpts, hostHead, hostCheckpoint, llmResponse, prDiff)
            IN /\ pResult' = Some(r.result)
               /\ lastDiff' = r.cached
               /\ hostCheckpoint' = r.checkpoint
               /\ cOutcome' = r.outcome
       ELSE /\ pResult' = Some(llmResponse)
            /\ lastDiff' = Some(prDiff)
            /\ hostCheckpoint' = hostCheckpoint
            /\ cOutcome' = "full"
  /\ pPc' = "reviewed"
  /\ UNCHANGED <<prDiff, llmResponse, pSubmitted, hostCalls, pRun, pCallsBefore,
                 cOpts, hostHead, cStart>>

\* the review throws (the LLM or the host fails): catch, process.exit(1)
CliReviewFails ==
  /\ pPc = "start"
  /\ pPc' = "failed"
  /\ cOutcome' = "error"
  /\ UNCHANGED <<prDiff, llmResponse, lastDiff, pResult, pSubmitted, hostCalls, pRun,
                 pCallsBefore, cOpts, hostHead, hostCheckpoint, cStart>>

\* cli.ts:123-130: post the review unless --dry-run
CliPost ==
  /\ \/ ~cOpts.dryRun /\ PostReview
     \/ /\ cOpts.dryRun
        /\ pPc = "reviewed"
        /\ pPc' = "done"
        /\ UNCHANGED <<prDiff, llmResponse, lastDiff, pResult, pSubmitted, hostCalls, pRun,
                       pCallsBefore>>
  /\ UNCHANGED cliVars

\* the author pushes a commit to the PR branch
Push ==
  /\ hostHead < MaxSha
  /\ pPc \in {"posted", "failed", "done"}
  /\ hostHead' = hostHead + 1
  /\ UNCHANGED <<postVars, cOpts, hostCheckpoint, cStart, cOutcome>>

\* somebody edits the checkpoint comment and breaks its JSON
CorruptCheckpoint ==
  /\ pPc \in {"posted", "failed", "done"}
  /\ hostCheckpoint # None
  /\ hostCheckpoint[1].ok
  /\ hostCheckpoint' = Some(Checkpoint(hostCheckpoint[1].sha, FALSE))
  /\ UNCHANGED <<postVars, cOpts, hostHead, cStart, cOutcome>>

\* the command is run again on the PR, with any options
CliRunAgain ==
  /\ RunAgain
  /\ cOpts' \in {o \in CliOptions : o.vcs = cOpts.vcs}
  /\ cStart' = [head |-> hostHead, checkpoint |-> hostCheckpoint]
  /\ cOutcome' = ""
  /\ UNCHANGED <<hostHead, hostCheckpoint>>

(***************************************************************************)
(*          WEBHOOK SERVER: handlers, background tasks, graph cache        *)
(*     src/unnamed/part_004:1-155 (webhooks), 306-388 (graph cache)        *)
(*            src/packages/api/src/review-runner.ts:22-90                  *)
(* The Indexer, the symbol graph and the Retriever are not among the       *)
(* sources; incrementalUpdate and the graph are modelled from the          *)
(* specification (4.2, 4.3, 5) and src/packages/docs/architecture/         *)
(* indexing.md:38-52.  One repository is modelled.                         *)
(***************************************************************************)

\* most background tasks the server is given
MaxTasks == 2

Files == {"x.ts", "y.ts"}

\* The graph, file by file: whether the file's symbols are in it, the
\* batch that parsed them (0: the full index), and whether every edge has
\* been resolved to a symbol id.
Graph(present, ver, resolved) == [present |-> present, ver |-> ver, resolved |-> resolved]

IndexedGraph == Graph([f \in Files |-> TRUE], [f \in Files |-> 0], TRUE)
EmptyGraph   == Graph([f \in Files |-> FALSE], [f \in Files |-> 0], TRUE)

removeFile(g, f) == [g EXCEPT !.present[f] = FALSE, !.ver[f] = 0]
\* parse the file, addSymbol, addEdge: the new edges point at bare names
addParsed(g, f, batch) == [g EXCEPT !.present[f] = TRUE, !.ver[f] = batch, !.resolved = FALSE]
resolveNames(g) == [g EXCEPT !.resolved = TRUE]

\* a request to a webhook endpoint: its signature header against the
\* body ("good": the HMAC under the server's secret), its event (GitHub's
\* x-github-event and action; for Azure "push" is git.push, "pull_request"
\* with "opened" is git.pullrequest.created or .updated, with "closed" any
\* other git.pullrequest event), whether the payload names the repository,
\* and the files its commits name
Requests ==
  [endpoint : {"github", "azure"}, sig : {"good", "bad", "none"},
   event : {"push", "pull_request", "other"}, action : {"opened", "closed"},
   hasRepo : BOOLEAN, files : {<<>>, <<"x.ts">>, <<"x.ts", "y.ts">>}, pr : {1}]

\* verifyGitHubSignature(secret, rawBody, sig)
verifyGitHubSignature(secret, sig) ==
  IF secret = "" THEN TRUE
  ELSE IF sig = "none" THEN FALSE
  ELSE sig = "good"

IndexTask(files) ==
  [kind |-> "index", files |-> files, pr |-> 0, pc |-> "queued", i |-> 0, entry |-> 0,
   observed |-> None, serialized |-> None]
ReviewTask(pr) ==
  [kind |-> "review", files |-> <<>>, pr |-> pr, pc |-> "queued", i |-> 0, entry |-> 0,
   observed |-> None, serialized |-> None]

\* the callback the handler gives to setImmediate, if any
Scheduled(req) ==
  IF ~req.hasRepo THEN <<>>
  ELSE IF req.event = "push" /\ req.files # <<>> THEN <<IndexTask(req.files)>>
  ELSE IF req.event = "pull_request" /\ req.action = "opened" THEN <<ReviewTask(req.pr)>>
  ELSE <<>>

Response(req, status, scheduled) ==
  [endpoint |-> req.endpoint, sig |-> req.sig, status |-> status, scheduled |-> scheduled]

SrvIdle ==
  /\ sSecret = "" /\ sLast = None /\ tasks = <<>> /\ cache = 0 /\ entries = <<>>
  /\ snapshot = EmptyGraph /\ sBoundaries = {} /\ sApplied = <<>>

\* the server is up: the repository is registered and fully indexed, and
\* either warmupAllRepos has loaded it into the cache or it has not yet
SrvInit ==
  /\ sSecret \in {"", "s3cret"}
  /\ sLast = None
  /\ tasks = <<>>
  /\ \/ cache = 1 /\ entries = <<IndexedGraph>>
     \/ cache = 0 /\ entries = <<>>
  /\ snapshot = IndexedGraph
  /\ sBoundaries = {IndexedGraph}
  /\ sApplied = <<>>

\* POST /api/webhooks/github
GitHubWebhook ==
  \E req \in Requests :
    /\ req.endpoint = "github"
    /\ IF ~verifyGitHubSignature(sSecret, req.sig)
         THEN /\ sLast' = Some(Response(req, 401, FALSE))
              /\ tasks' = tasks
         ELSE /\ Len(tasks) + Len(Scheduled(req)) <= MaxTasks
              /\ sLast' = Some(Response(req, 200, Scheduled(req) # <<>>))
              /\ tasks' = tasks \o Scheduled(req)
    /\ UNCHANGED <<sSecret, cache, entries, snapshot, sBoundaries, sApplied>>

\* POST /api/webhooks/azure
AzureWebhook ==
  \E req \in Requests :
    /\ req.endpoint = "azure"
    /\ Len(tasks) + Len(Scheduled(req)) <= MaxTasks
    /\ sLast' = Some(Response(req, 200, Scheduled(req) # <<>>))
    /\ tasks' = tasks \o Scheduled(req)
    /\ UNCHANGED <<sSecret, cache, entries, snapshot, sBoundaries, sApplied>>

\* setImmediate runs its callbacks in the order they were given
NextToStart(t) ==
  /\ t \in 1..Len(tasks)
  /\ tasks[t].pc = "queued"
  /\ \A u \in 1..(t - 1) : tasks[u].pc # "queued"

\* the first step of incrementalUpdate on the entry's graph: removeFile of
\* the first file, then the wait for storage.deleteByFile
BeginUpdate(t, e, graphs) ==
  /\ entries' = [graphs EXCEPT ![e] = removeFile(@, tasks[t].files[1])]
  /\ tasks' = [tasks EXCEPT ![t].pc = "parse", ![t].i = 1, ![t].entry = e]

\* the push callback: getOrLoadRepo finds the entry in the cache
IndexStartCached(t) ==
  /\ NextToStart(t)
  /\ tasks[t].kind = "index"
  /\ cache # 0
  /\ BeginUpdate(t, cache, entries)
  /\ UNCHANGED <<sSecret, sLast, cache, snapshot, sBoundaries, sApplied>>

\* the push callback: getOrLoadRepo finds nothing and calls loadRepo, which
\* waits for the registry and the storage
IndexStartLoad(t) ==
  /\ NextToStart(t)
  /\ tasks[t].kind = "index"
  /\ cache = 0
  /\ tasks' = [tasks EXCEPT ![t].pc = "loading"]
  /\ UNCHANGED <<sSecret, sLast, cache, entries, snapshot, sBoundaries, sApplied>>

\* loadRepo returns: a new graph read from the snapshot is put into the
\* cache, and incrementalUpdate begins on it
IndexLoaded(t) ==
  /\ t \in 1..Len(tasks)
  /\ tasks[t].pc = "loading"
  /\ cache' = Len(entries) + 1
  /\ BeginUpdate(t, Len(entries) + 1, Append(entries, snapshot))
  /\ UNCHANGED <<sSecret, sLast, snapshot, sBoundaries, sApplied>>

\* the file is parsed again and its symbols and edges added; then the wait
\* for the upsert
IndexParse(t) ==
  /\ t \in 1..Len(tasks)
  /\ tasks[t].pc = "parse"
  /\ entries' = [entries EXCEPT ![tasks[t].entry] = addParsed(@, tasks[t].files[tasks[t].i], t)]
  /\ tasks' = [tasks EXCEPT ![t].pc = "parsed"]
  /\ UNCHANGED <<sSecret, sLast, cache, snapshot, sBoundaries, sApplied>>

\* the next file of the batch is removed
IndexNextFile(t) ==
  /\ t \in 1..Len(tasks)
  /\ tasks[t].pc = "parsed"
  /\ tasks[t].i < Len(tasks[t].files)
  /\ entries' = [entries EXCEPT ![tasks[t].entry] = removeFile(@, tasks[t].files[tasks[t].i + 1])]
  /\ tasks' = [tasks EXCEPT ![t].pc = "parse", ![t].i = @ + 1]
  /\ UNCHANGED <<sSecret, sLast, cache, snapshot, sBoundaries, sApplied>>

\* after the last file: resolveNames, serialize, then the wait for the
\* snapshot to be written
IndexResolve(t) ==
  /\ t \in 1..Len(tasks)
  /\ tasks[t].pc = "parsed"
  /\ tasks[t].i = Len(tasks[t].files)
  /\ LET g == resolveNames(entries[tasks[t].entry])
     IN /\ entries' = [entries EXCEPT ![tasks[t].entry] = g]
        /\ tasks' = [tasks EXCEPT ![t].pc = "saving", ![t].serialized = Some(g)]
        /\ sBoundaries' = sBoundaries \cup {g}
  /\ sApplied' = Append(sApplied, t)
  /\ UNCHANGED <<sSecret, sLast, cache, snapshot>>

\* the snapshot serialized at the end of the batch reaches the storage
IndexSaved(t) ==
  /\ t \in 1..Len(tasks)
  /\ tasks[t].pc = "saving"
  /\ snapshot' = tasks[t].serialized[1]
  /\ tasks' = [tasks EXCEPT ![t].pc = "done"]
  /\ UNCHANGED <<sSecret, sLast, cache, entries, sBoundaries, sApplied>>

\* a storage call of the push callback fails: the error surfaces and the
\* callback's catch logs it
IndexFails(t) ==
  /\ t \in 1..Len(tasks)
  /\ tasks[t].pc \in {"loading", "parse", "parsed", "saving"}
  /\ tasks' = [tasks EXCEPT ![t].pc = "failed"]
  /\ UNCHANGED <<sSecret, sLast, cache, entries, snapshot, sBoundaries, sApplied>>

\* the pull-request callback: the wait for the repo's token for the repo's token
ReviewStart(t) ==
  /\ NextToStart(t)
  /\ tasks[t].kind = "review"
  /\ tasks' = [tasks EXCEPT ![t].pc = "token"]
  /\ UNCHANGED <<sSecret, sLast, cache, entries, snapshot, sBoundaries, sApplied>>

\* runReview with the token: without one it throws; with a loaded graph it
\* fetches the diff for the retriever; with none it goes on to the review
ReviewSetup(t) ==
  /\ t \in 1..Len(tasks)
  /\ tasks[t].pc = "token"
  /\ \E hasToken \in BOOLEAN :
       tasks' = [tasks EXCEPT ![t].pc = IF ~hasToken THEN "failed"
                                         ELSE IF cache # 0 THEN "diff" ELSE "review",
                              ![t].entry = IF hasToken THEN cache ELSE 0]
  /\ UNCHANGED <<sSecret, sLast, cache, entries, snapshot, sBoundaries, sApplied>>

\* fetchDiffString returns.  With a diff, entry.retriever.getReviewContext
\* looks up the entry's graph (changed symbols, callers, callees, blast
\* radius) without a wait between the lookups; with none (getDiff threw,
\* or the diff is empty) the review goes on without graph context
ReviewContext(t) ==
  /\ t \in 1..Len(tasks)
  /\ tasks[t].pc = "diff"
  /\ \E hasDiff \in BOOLEAN :
       tasks' = [tasks EXCEPT ![t].pc = "review",
                              ![t].observed = IF hasDiff THEN Some(entries[tasks[t].entry])
                                              ELSE None]
  /\ UNCHANGED <<sSecret, sLast, cache, entries, snapshot, sBoundaries, sApplied>>

\* agent.review returns (or the LLM fails); postReview begins and waits
\* for the host
ReviewGenerated(t) ==
  /\ t \in 1..Len(tasks)
  /\ tasks[t].pc = "review"
  /\ \E ok \in BOOLEAN : tasks' = [tasks EXCEPT ![t].pc = IF ok THEN "posting" ELSE "failed"]
  /\ UNCHANGED <<sSecret, sLast, cache, entries, snapshot, sBoundaries, sApplied>>

\* postReview returns
ReviewPosted(t) ==
  /\ t \in 1..Len(tasks)
  /\ tasks[t].pc = "posting"
  /\ tasks' = [tasks EXCEPT ![t].pc = "done"]
  /\ UNCHANGED <<sSecret, sLast, cache, entries, snapshot, sBoundaries, sApplied>>

TaskIds == 1..MaxTasks

(***************************************************************************)
(*                 SYMBOL GRAPH: BFS and blast radius                      *)
(*          src/docs/blog/03-graph-engine-tree-sitter.md:127-203           *)
(* InMemorySymbolGraph.ts itself is not among the sources; bfs and         *)
(* getBlastRadius are modelled from the listings of that file in the blog, *)
(* and what the listings leave out (the getCallers wrapper, affectedFiles) *)
(* from the specification (3, 4.2).                                        *)
(***************************************************************************)

\* most edges of a graph, most hops asked for, most seeds of a blast radius
MaxEdges == 3
MaxHops == 3
MaxSeeds == 2

\* the symbol ids, in the order they were added
SymbolIds == <<"A", "B", "C", "D">>
AllSymbols == {SymbolIds[k] : k \in 1..Len(SymbolIds)}

\* ParsedSymbol.filePath
filePath(id) ==
  CASE id = "A" -> "x.ts" [] id = "B" -> "x.ts" [] id = "C" -> "y.ts" [] OTHER -> "z.ts"

Edge(from, to) == [from |-> from, to |-> to]

\* every edge there can be, in the order addEdge would be called
EdgeOrder ==
  [k \in 1..(Len(SymbolIds) * Len(SymbolIds)) |->
     Edge(SymbolIds[((k - 1) \div Len(SymbolIds)) + 1], SymbolIds[((k - 1) % Len(SymbolIds)) + 1])]
PossibleEdges == {EdgeOrder[k] : k \in 1..Len(EdgeOrder)}

\* a graph: the ids in the symbols map and the (resolved) edges; an edge
\* may name an id that is not, or no longer, in the symbols map
SymbolGraph(symbols, edges) == [symbols |-> symbols, edges |-> edges]
SymbolGraphs ==
  {SymbolGraph(syms, edges) :
     syms \in {AllSymbols, AllSymbols \ {"D"}},
     edges \in {E \in SUBSET PossibleEdges : Cardinality(E) <= MaxEdges}}

\* inEdges.get(id) ?? []
inEdges(g, id) ==
  LET Into(e) == e \in g.edges /\ e.to = id
  IN SelectSeq(EdgeOrder, Into)
\* outEdges.get(id) ?? []
outEdges(g, id) ==
  LET From(e) == e \in g.edges /\ e.from = id
  IN SelectSeq(EdgeOrder, From)

RECURSIVE VisitEdgesUnmarked(_, _, _, _, _, _)
\* the for loop without the test of the visited set
VisitEdgesUnmarked(g, edges, k, inbound, hop, st) ==
  IF k > Len(edges) THEN st
  ELSE LET neighborId == IF inbound THEN edges[k].from ELSE edges[k].to
       IN IF neighborId \in g.symbols
            THEN VisitEdgesUnmarked(g, edges, k + 1, inbound, hop,
                            [queue   |-> Append(st.queue, [id |-> neighborId, hop |-> hop + 1]),
                             visited |-> st.visited \cup {neighborId},
                             result  |-> Append(st.result, neighborId)])
          ELSE VisitEdgesUnmarked(g, edges, k + 1, inbound, hop, st)

RECURSIVE VisitEdges(_, _, _, _, _, _)
\* the for loop of bfs over the edges of the dequeued node; st holds the
\* queue, the visited set and the result
VisitEdges(g, edges, k, inbound, hop, st) ==
  IF k > Len(edges) THEN st
  ELSE LET neighborId == IF inbound THEN edges[k].from ELSE edges[k].to
       IN IF neighborId \in st.visited
            THEN VisitEdges(g, edges, k + 1, inbound, hop, st)
          ELSE IF neighborId \in g.symbols
            THEN VisitEdges(g, edges, k + 1, inbound, hop,
                            [queue   |-> Append(st.queue, [id |-> neighborId, hop |-> hop + 1]),
                             visited |-> st.visited \cup {neighborId},
                             result  |-> Append(st.result, neighborId)])
          ELSE VisitEdges(g, edges, k + 1, inbound, hop,
                          [st EXCEPT !.visited = @ \cup {neighborId}])

RECURSIVE BfsLoopOffByOne(_, _, _, _)
\* the while loop with the hop test one too late
BfsLoopOffByOne(g, maxHops, inbound, st) ==
  IF st.queue = <<>> THEN st.result
  ELSE LET head == Head(st.queue)
           rest == [st EXCEPT !.queue = Tail(@)]
       IN IF head.hop > maxHops
            THEN BfsLoopOffByOne(g, maxHops, inbound, rest)
            ELSE BfsLoopOffByOne(g, maxHops, inbound,
                   VisitEdges(g, IF inbound THEN inEdges(g, head.id) ELSE outEdges(g, head.id),
                              1, inbound, head.hop, rest))

RECURSIVE BfsLoop(_, _, _, _)
\* the while loop of bfs
BfsLoop(g, maxHops, inbound, st) ==
  IF st.queue = <<>> THEN st.result
  ELSE LET head == Head(st.queue)
           rest == [st EXCEPT !.queue = Tail(@)]
       IN IF head.hop >= maxHops
            THEN BfsLoop(g, maxHops, inbound, rest)
            ELSE BfsLoop(g, maxHops, inbound,
                   VisitEdges(g, IF inbound THEN inEdges(g, head.id) ELSE outEdges(g, head.id),
                              1, inbound, head.hop, rest))

\* bfs(startId, maxHops, edgeMap, visited, result) with a fresh visited set
\* and result
bfs(g, startId, maxHops, inbound) ==
  BfsLoop(g, maxHops, inbound,
          [queue |-> <<[id |-> startId, hop |-> 0]>>, visited |-> {startId}, result |-> <<>>])

\* the public wrappers: an id that is no symbol of the graph has neither
\* callers nor callees
getCallers(g, id, hops) == IF id \notin g.symbols THEN <<>> ELSE bfs(g, id, hops, TRUE)
getCallees(g, id, hops) == IF id \notin g.symbols THEN <<>> ELSE bfs(g, id, hops, FALSE)

Range(seq) == {seq[k] : k \in 1..Len(seq)}

\* map.set(s.id, s) on a Map, which keeps the order of first insertion
MapSet(map, id) == IF id \in Range(map) THEN map ELSE Append(map, id)

RECURSIVE SetAll(_, _, _)
\* for (const s of getCallers(id, 1)) direct.set(s.id, s)
SetAll(map, items, k) ==
  IF k > Len(items) THEN map ELSE SetAll(MapSet(map, items[k]), items, k + 1)

RECURSIVE SetUnlessDirect(_, _, _, _)
\* for (const s of getCallers(id, 2)) if (!direct.has(s.id)) transitive.set(s.id, s)
SetUnlessDirect(map, items, k, direct) ==
  IF k > Len(items) THEN map
  ELSE SetUnlessDirect(IF items[k] \in Range(direct) THEN map ELSE MapSet(map, items[k]),
                       items, k + 1, direct)

RECURSIVE BlastLoop(_, _, _, _)
\* the loop of getBlastRadius over the seed ids
BlastLoop(g, ids, k, maps) ==
  IF k > Len(ids) THEN maps
  ELSE LET direct == SetAll(maps.direct, getCallers(g, ids[k], 1), 1)
           transitive == SetUnlessDirect(maps.transitive, getCallers(g, ids[k], 2), 1, direct)
       IN BlastLoop(g, ids, k + 1, [direct |-> direct, transitive |-> transitive])

\* the deduplicated file paths of the two caller sets
affectedFiles(direct, transitive) == {filePath(id) : id \in Range(direct) \cup Range(transitive)}

\* Math.round(x * 1.5) of a whole number x
RoundTimesOneAndHalf(x) == (3 * x + 1) \div 2

\* Math.min(100, Math.round((direct.size * 10 + transitive.size * 5)
\*                          * (affectedFiles.length > 5 ? 1.5 : 1)))
riskScore(direct, transitive, files) ==
  LET base == Len(direct) * 10 + Len(transitive) * 5
  IN Min(100, IF Cardinality(files) > 5 THEN RoundTimesOneAndHalf(base) ELSE base)

getBlastRadius(g, ids) ==
  LET maps == BlastLoop(g, ids, 1, [direct |-> <<>>, transitive |-> <<>>])
      files == affectedFiles(maps.direct, maps.transitive)
  IN [directCallers     |-> maps.direct,
      transitiveCallers |-> maps.transitive,
      affectedFiles     |-> files,
      riskScore         |-> riskScore(maps.direct, maps.transitive, files)]

\* the seeds of a blast radius: distinct ids, in the caller's order
SeedLists == {ids \in SeqsUpTo(AllSymbols, MaxSeeds) : Cardinality(Range(ids)) = Len(ids)}

GraphIdle ==
  /\ gSymbols = {} /\ gEdges = {} /\ gSeeds = <<>> /\ gResults = <<>> /\ gBlast = None
  /\ gPc = "idle"

\* a graph, and a symbol whose callers are asked for with growing hops
BfsInit ==
  /\ \E g \in SymbolGraphs : gSymbols = g.symbols /\ gEdges = g.edges
  /\ gSeeds \in {<<id>> : id \in AllSymbols}
  /\ gResults = <<>>
  /\ gBlast = None
  /\ gPc = "callers"

\* getCallers(id, hops) for the next number of hops, from 0 on
GetCallers ==
  /\ gPc = "callers"
  /\ Len(gResults) <= MaxHops
  /\ gResults' = Append(gResults, getCallers(SymbolGraph(gSymbols, gEdges), gSeeds[1], Len(gResults)))
  /\ UNCHANGED <<gSymbols, gEdges, gSeeds, gBlast, gPc>>

\* a graph, a seed that may be no symbol of it, and nothing asked yet
TraverseInit ==
  /\ \E g \in SymbolGraphs : gSymbols = g.symbols /\ gEdges = g.edges
  /\ gSeeds \in {<<id>> : id \in AllSymbols}
  /\ gResults = <<>>
  /\ gBlast = None
  /\ gPc = "traverse"
  /\ tHops = None /\ tCallers = <<>> /\ tCallees = <<>>

TraverseIdle == tHops = None /\ tCallers = <<>> /\ tCallees = <<>>

\* getCallers(id, hops) and getCallees(id, hops) for some number of hops,
\* negative ones included
Traverse ==
  /\ gPc = "traverse"
  /\ \E hops \in (-1)..MaxHops :
       /\ tHops' = Some(hops)
       /\ tCallers' = getCallers(SymbolGraph(gSymbols, gEdges), gSeeds[1], hops)
       /\ tCallees' = getCallees(SymbolGraph(gSymbols, gEdges), gSeeds[1], hops)
  /\ gPc' = "done"
  /\ UNCHANGED <<gSymbols, gEdges, gSeeds, gResults, gBlast>>

\* a graph and the changed symbols whose blast radius is asked for
BlastInit ==
  /\ \E g \in SymbolGraphs : gSymbols = g.symbols /\ gEdges = g.edges
  /\ gSeeds \in SeedLists
  /\ gResults = <<>>
  /\ gBlast = None
  /\ gPc = "blast"

GetBlastRadius ==
  /\ gPc = "blast"
  /\ gBlast' = Some(getBlastRadius(SymbolGraph(gSymbols, gEdges), gSeeds))
  /\ gPc' = "done"
  /\ UNCHANGED <<gSymbols, gEdges, gSeeds, gResults>>

(***************************************************************************)
(*          SYMBOL GRAPH: removeFile, re-parse, resolveNames               *)
(* The graph's mutators and the parsers are not among the sources; they    *)
(* are modelled from the specification (3, 4.1, 4.2, 4.3) and from         *)
(* src/packages/docs/architecture/graph-engine.md:87-97.                   *)
(***************************************************************************)

\* most call sites in one file
MaxCalls == 2

SourceFiles == {"x.ts", "y.ts"}
SymbolNames == {"a", "b"}

\* Symbol.id, "<filePath>:<qualifiedName>"
SymbolId(file, name) == [file |-> file, name |-> name]
\* the `to` of an edge: a bare callee name at extraction, a symbol id after
\* resolution
BareName(name) == [file |-> "", name |-> name]
IsBare(to) == to.file = ""
CallEdge(from, to) == [from |-> from, to |-> to]

\* what a parser sees in a file: the declared symbols and the call sites
\* (caller's name, callee's bare name)
FileContents ==
  UNION {{[decls |-> decls, calls |-> calls] :
            calls \in {C \in SUBSET (decls \X SymbolNames) : Cardinality(C) <= MaxCalls}} :
         decls \in SUBSET SymbolNames}

\* the symbols and edges a parser extracts from a file
ParsedSymbols(file, content) == {SymbolId(file, n) : n \in content.decls}
ParsedEdges(file, content) ==
  {CallEdge(SymbolId(file, c[1]), BareName(c[2])) : c \in content.calls}

EmptySymbolGraph == [symbols |-> {}, edges |-> {}]

\* addSymbol and addEdge for everything parsed from the file
addParsedFile(g, file, content) ==
  [symbols |-> g.symbols \cup ParsedSymbols(file, content),
   edges   |-> g.edges \cup ParsedEdges(file, content)]

\* nameToIds[name]
nameToIds(g, name) == {id \in g.symbols : id.name = name}

\* resolveNames(): every edge to a bare name becomes one edge to each id
\* of that name; with no such id it is discarded
resolveAllNames(g) ==
  [symbols |-> g.symbols,
   edges   |-> {e \in g.edges : ~IsBare(e.to)}
                 \cup UNION {{CallEdge(e.from, id) : id \in nameToIds(g, e.to.name)} :
                               e \in {d \in g.edges : IsBare(d.to)}}]

\* removeFile that leaves the edges from other files into the file's
\* symbols in place
removeFileKeepInbound(g, file) ==
  [symbols |-> {id \in g.symbols : id.file # file},
   edges   |-> {e \in g.edges : e.from.file # file}]

\* removeFile(path): the file's symbols, their outgoing edges, and every
\* edge whose from or to is one of them
removeFileOf(g, file) ==
  [symbols |-> {id \in g.symbols : id.file # file},
   edges   |-> {e \in g.edges : e.from.file # file /\ e.to.file # file}]

RECURSIVE ParseAll(_, _, _)
\* full index, step 2: every file is parsed into the graph
ParseAll(g, disk, files) ==
  IF files = {} THEN g
  ELSE LET f == CHOOSE x \in files : TRUE
       IN ParseAll(addParsedFile(g, f, disk[f]), disk, files \ {f})

\* full index, steps 2 and 3
fullIndex(disk) == resolveAllNames(ParseAll(EmptySymbolGraph, disk, SourceFiles))

NoContent == [decls |-> {}, calls |-> {}]

IndexIdle ==
  /\ iDisk = [f \in SourceFiles |-> NoContent] /\ iGraph = EmptySymbolGraph /\ iFile = ""
  /\ iBefore = EmptySymbolGraph /\ iOld = NoContent /\ iPc = "idle"

\* the repository has been fully indexed
IndexInit ==
  /\ iDisk \in [SourceFiles -> FileContents]
  /\ iGraph = fullIndex(iDisk)
  /\ iFile = ""
  /\ iBefore = EmptySymbolGraph
  /\ iOld = NoContent
  /\ iPc = "indexed"

\* a push names a file: its content in the working tree is the new one
\* (possibly the same bytes; no declarations when the file is gone), and
\* an incremental update for it begins
FilePushed ==
  /\ iPc \in {"indexed", "updated"}
  /\ \E f \in SourceFiles, content \in FileContents :
       /\ iDisk' = [iDisk EXCEPT ![f] = content]
       /\ iFile' = f
       /\ iOld' = iDisk[f]
  /\ iBefore' = iGraph
  /\ iPc' = "pushed"
  /\ UNCHANGED iGraph

\* incremental update, step 1
RemoveFile ==
  /\ iPc = "pushed"
  /\ iGraph' = removeFileOf(iGraph, iFile)
  /\ iPc' = "removed"
  /\ UNCHANGED <<iDisk, iFile, iBefore, iOld>>

\* incremental update, step 2
Reparse ==
  /\ iPc = "removed"
  /\ iGraph' = addParsedFile(iGraph, iFile, iDisk[iFile])
  /\ iPc' = "parsed"
  /\ UNCHANGED <<iDisk, iFile, iBefore, iOld>>

\* incremental update, step 3
ResolveNames ==
  /\ iPc = "parsed"
  /\ iGraph' = resolveAllNames(iGraph)
  /\ iPc' = "updated"
  /\ UNCHANGED <<iDisk, iFile, iBefore, iOld>>

(***************************************************************************)
(*                    RETRIEVER: getReviewContext                          *)
(*          src/docs/blog/04-three-depths-of-review.md:36-46, 105-121       *)
(* Retriever.ts itself is not among the sources; the caller and callee     *)
(* loops and the deep-mode search are modelled from the listings of that   *)
(* file in the blog, the changed symbols from the specification (4.4).     *)
(***************************************************************************)

\* most edges of the graph a context is built from, most search results
MaxContextEdges == 2
MaxResults == 2

\* a vector of the index whose symbol is no longer in the graph
StaleId == "E"

ContextGraphs ==
  {SymbolGraph(syms, edges) :
     syms \in {AllSymbols, AllSymbols \ {"D"}},
     edges \in {E \in SUBSET PossibleEdges : Cardinality(E) <= MaxContextEdges}}

Depths == {"fast", "standard", "deep"}

\* what embeddings.search may return: distinct ids, nearest first
SearchResults ==
  {r \in SeqsUpTo(AllSymbols \cup {StaleId}, MaxResults) : Cardinality(Range(r)) = Len(r)}

\* every symbol whose filePath is among the changed paths
changedSymbols(g, paths) ==
  LET Changed(id) == id \in g.symbols /\ filePath(id) \in paths
  IN SelectSeq(SymbolIds, Changed)

\* depth === 'fast' ? 1 : 2
hopsOf(depth) == IF depth = "fast" THEN 1 ELSE 2

RECURSIVE callerMap(_, _, _, _, _)
\* for (const sym of changedSymbols)
\*   for (const c of getCallers(sym.id, hops)) callerMap.set(c.id, c)
callerMap(g, changed, hops, k, map) ==
  IF k > Len(changed) THEN map
  ELSE callerMap(g, changed, hops, k + 1, SetAll(map, getCallers(g, changed[k], hops), 1))

RECURSIVE calleeMap(_, _, _, _)
\* for (const sym of changedSymbols)
\*   for (const c of getCallees(sym.id, 1)) calleeMap.set(c.id, c)
calleeMap(g, changed, k, map) ==
  IF k > Len(changed) THEN map
  ELSE calleeMap(g, changed, k + 1, SetAll(map, getCallees(g, changed[k], 1), 1))

\* the search results taken as they come
semanticNeighborsUnfiltered(g, results, changed, callers, callees) ==
  LET Keep(id) == id \in g.symbols
  IN SelectSeq(results, Keep)

\* for (const r of results)
\*   if (!knownIds.has(r.id)) { sym = graph.getSymbol(r.id); if (sym) push }
semanticNeighbors(g, results, changed, callers, callees) ==
  LET knownIds == Range(changed) \cup Range(callers) \cup Range(callees)
      Keep(id) == id \notin knownIds /\ id \in g.symbols
  IN SelectSeq(results, Keep)

\* the search runs only in deep mode with an embedding adapter and at
\* least one changed symbol
Searches(g, paths, depth, embeddings) ==
  depth = "deep" /\ embeddings /\ changedSymbols(g, paths) # <<>>

getReviewContext(g, paths, depth, embeddings, results) ==
  LET changed == changedSymbols(g, paths)
      callers == callerMap(g, changed, hopsOf(depth), 1, <<>>)
      callees == calleeMap(g, changed, 1, <<>>)
  IN [changedSymbols    |-> changed,
      callers           |-> callers,
      callees           |-> callees,
      blastRadius       |-> getBlastRadius(g, changed),
      semanticNeighbors |-> IF Searches(g, paths, depth, embeddings)
                              THEN semanticNeighbors(g, results, changed, callers, callees)
                              ELSE <<>>]

RetrieverIdle ==
  /\ rGraph = None /\ rChanged = {} /\ rDepth = "standard" /\ rEmbeddings = FALSE
  /\ rResults = <<>> /\ rContext = None

\* a loaded graph, the paths of a diff's headers, the configured depth and
\* whether an embedding adapter is configured
RetrieverInit ==
  /\ rGraph \in {Some(g) : g \in ContextGraphs}
  /\ rChanged \in SUBSET {"x.ts", "y.ts"}
  /\ rDepth \in Depths
  /\ rEmbeddings \in BOOLEAN
  /\ rResults = <<>>
  /\ rContext = None

\* retriever.getReviewContext(diff, repoId); the vector index answers the
\* search with any of its rows
GetReviewContext ==
  /\ rGraph # None /\ rContext = None
  /\ \E results \in IF Searches(rGraph[1], rChanged, rDepth, rEmbeddings)
                      THEN SearchResults ELSE {<<>>} :
       /\ rResults' = results
       /\ rContext' = Some(getReviewContext(rGraph[1], rChanged, rDepth, rEmbeddings, results))
  /\ UNCHANGED <<rGraph, rChanged, rDepth, rEmbeddings>>

(***************************************************************************)
(*                   FEEDBACK ROUTE: GET /api/feedback                     *)
(*        src/docs/blog/06-precision-filter-and-rag-feedback.md:181-213     *)
(* routes/feedback.ts itself is not among the sources; the minting of a    *)
(* token, its verification and the upsert are modelled from the listings   *)
(* in the blog, the replies from the specification (4.8, 7).               *)
(***************************************************************************)

\* longest token of a request, in characters
MaxTokenLen == 3

CommentIds == {"c1", "c2"}
Signals == {"accepted", "rejected"}
FeedbackSecret == "secret"

\* the characters a token is written with: hex digits in either case and
\* one character that is no hex digit
TokenChars == {"0", "a", "A", "z"}
Tokens == SeqsUpTo(TokenChars, MaxTokenLen)

HexAlphabet == <<"0", "1", "2", "3", "4", "5", "6", "7", "8", "9", "a", "b", "c", "d", "e", "f">>
UpperHex == <<"A", "B", "C", "D", "E", "F">>

\* the value of a hex digit of either case, Undefined for any other
\* character
unhex(c) ==
  IF \E k \in 1..Len(HexAlphabet) : HexAlphabet[k] = c
    THEN (CHOOSE k \in 1..Len(HexAlphabet) : HexAlphabet[k] = c) - 1
  ELSE IF \E k \in 1..Len(UpperHex) : UpperHex[k] = c
    THEN (CHOOSE k \in 1..Len(UpperHex) : UpperHex[k] = c) + 9
  ELSE Undefined

RECURSIVE HexDecode(_, _)
\* Buffer.from(str, 'hex'): two digits make a byte; decoding stops at the
\* first pair that is not two hex digits, and a last odd digit is dropped
HexDecode(str, k) ==
  IF 2 * k > Len(str) THEN <<>>
  ELSE LET a == unhex(str[2 * k - 1])
           b == unhex(str[2 * k])
       IN IF a = Undefined \/ b = Undefined THEN <<>>
          ELSE <<16 * a + b>> \o HexDecode(str, k + 1)
BufferFromHex(str) == HexDecode(str, 1)

RECURSIVE HexEncode(_, _)
\* digest('hex'): two lower-case digits for every byte
HexEncode(bytes, k) ==
  IF k > Len(bytes) THEN <<>>
  ELSE <<HexAlphabet[(bytes[k] \div 16) + 1], HexAlphabet[(bytes[k] % 16) + 1]>>
         \o HexEncode(bytes, k + 1)

\* createHmac('sha256', secret).update(`${id}:${signal}`): a keyed digest
\* without collisions, one byte long here
HmacBytes(secret, id, signal) ==
  <<16 * (IF id = "c1" THEN 0 ELSE 10) + (IF signal = "accepted" THEN 0 ELSE 10)>>

\* ... .digest('hex')
HmacHex(secret, id, signal) == HexEncode(HmacBytes(secret, id, signal), 1)

\* the token of a feedback URL
mintToken(id, signal) == HmacHex(FeedbackSecret, id, signal)

\* crypto.timingSafeEqual(a, b): throws when the byte lengths differ
timingSafeEqual(a, b) == IF Len(a) # Len(b) THEN "throws" ELSE IF a = b THEN "equal" ELSE "differs"

\* expected = hmac hex; valid = timingSafeEqual(Buffer.from(expected, 'hex'),
\*                                              Buffer.from(token, 'hex'))
verifyToken(id, signal, token) ==
  timingSafeEqual(BufferFromHex(HmacHex(FeedbackSecret, id, signal)), BufferFromHex(token))

\* INSERT ... ON CONFLICT (comment_id) DO UPDATE SET signal = EXCLUDED.signal
upsertFeedback(store, id, signal) == [store EXCEPT ![id] = signal]

FeedbackRequests == [id : CommentIds, signal : Signals, token : Tokens]

FeedbackIdle ==
  /\ fStore = <<>> /\ fBefore = <<>> /\ fRequest = None /\ fReply = 0

\* no comment has been rated
FeedbackInit ==
  /\ fStore = [id \in CommentIds |-> "none"]
  /\ fBefore = [id \in CommentIds |-> "none"]
  /\ fRequest = None
  /\ fReply = 0

\* GET /api/feedback?id=..&signal=..&token=.. with a token that verifies
FeedbackAccepted ==
  \E req \in FeedbackRequests :
    /\ verifyToken(req.id, req.signal, req.token) = "equal"
    /\ fBefore' = fStore
    /\ fStore' = upsertFeedback(fStore, req.id, req.signal)
    /\ fRequest' = Some(req)
    /\ fReply' = 200

\* ... with a token of the right length that does not verify
FeedbackRefused ==
  \E req \in FeedbackRequests :
    /\ verifyToken(req.id, req.signal, req.token) = "differs"
    /\ fBefore' = fStore
    /\ fRequest' = Some(req)
    /\ fReply' = 401
    /\ UNCHANGED fStore

\* ... with a token of another length: the comparison throws and the
\* handler fails
FeedbackThrows ==
  \E req \in FeedbackRequests :
    /\ verifyToken(req.id, req.signal, req.token) = "throws"
    /\ fBefore' = fStore
    /\ fRequest' = Some(req)
    /\ fReply' = 500
    /\ UNCHANGED fStore

(***************************************************************************)
(*          INDEX STATUS STREAM: POST /api/repos, GET .../index/status     *)
(*                     src/unnamed/part_004:204-272, 295-304                *)
(* Indexer.fullIndex is not among the sources; the progress events it      *)
(* hands to its callback are modelled from the specification (4.3).  One   *)
(* repository and one client are modelled.                                 *)
(***************************************************************************)

\* files of the repository being indexed
MaxIndexFiles == 2

Progress(step, progress) == [step |-> step, progress |-> progress]
\* progressStore.get(repoId) before any set, and after set(repoId, null)
NoProgress == Progress("undefined", 0)
NullProgress == Progress("null", 0)
DoneProgress == Progress("done", 0)

\* if (progress)
Truthy(progress) == progress.step \notin {"undefined", "null"}

\* the background task is inside indexer.fullIndex
IndexRunning == sseIndex \in {"scheduled", "parsing", "embedding"}

SseIdle ==
  /\ sseIndex = "idle" /\ sseParsed = 0 /\ sseStore = NoProgress /\ sseStream = "none"
  /\ sseReceived = {} /\ sseJoined = FALSE

\* POST /api/repos has replied 202; the full index is scheduled
SseInit ==
  /\ sseIndex = "scheduled" /\ sseParsed = 0 /\ sseStore = NoProgress /\ sseStream = "none"
  /\ sseReceived = {} /\ sseJoined = FALSE

\* the setImmediate callback runs up to the call of fullIndex
FullIndexStarts ==
  /\ sseIndex = "scheduled"
  /\ sseIndex' = "parsing"
  /\ UNCHANGED <<sseParsed, sseStore, sseStream, sseReceived, sseJoined>>

\* fullIndex parses one more file and reports it
FileParsed ==
  /\ sseIndex = "parsing" /\ sseParsed < MaxIndexFiles
  /\ sseParsed' = sseParsed + 1
  /\ sseStore' = Progress("parsing", sseParsed + 1)
  /\ UNCHANGED <<sseIndex, sseStream, sseReceived, sseJoined>>

\* all files are parsed; with an embedding adapter a batch is embedded and
\* reported
BatchEmbedded ==
  /\ sseIndex = "parsing" /\ sseParsed = MaxIndexFiles
  /\ sseIndex' = "embedding"
  /\ sseStore' = Progress("embedding", 1)
  /\ UNCHANGED <<sseParsed, sseStream, sseReceived, sseJoined>>

\* fullIndex reports done and returns; loadRepo is awaited
FullIndexDone ==
  /\ \/ sseIndex = "parsing" /\ sseParsed = MaxIndexFiles
     \/ sseIndex = "embedding"
  /\ sseIndex' = "loading"
  /\ sseStore' = DoneProgress
  /\ UNCHANGED <<sseParsed, sseStream, sseReceived, sseJoined>>

\* loadRepo has resolved: setProgress(repoId, null)
RepoLoaded ==
  /\ sseIndex = "loading"
  /\ sseIndex' = "finished"
  /\ sseStore' = NullProgress
  /\ UNCHANGED <<sseParsed, sseStream, sseReceived, sseJoined>>

\* fullIndex or loadRepo throws; the catch logs
FullIndexFails ==
  /\ sseIndex \in {"parsing", "embedding", "loading"}
  /\ sseIndex' = "failed"
  /\ UNCHANGED <<sseParsed, sseStore, sseStream, sseReceived, sseJoined>>

\* GET /api/repos/:id/index/status: the headers are flushed and the
\* interval is set
Connect ==
  /\ sseStream = "none"
  /\ sseStream' = "open"
  /\ sseJoined' = IndexRunning
  /\ UNCHANGED <<sseIndex, sseParsed, sseStore, sseReceived>>

\* the 500 ms interval fires
PollTick ==
  /\ sseStream = "open"
  /\ IF Truthy(sseStore)
       THEN /\ sseReceived' = sseReceived \cup {sseStore}
            /\ sseStream' = IF sseStore.step = "done" THEN "ended" ELSE sseStream
       ELSE UNCHANGED <<sseReceived, sseStream>>
  /\ UNCHANGED <<sseIndex, sseParsed, sseStore, sseJoined>>

\* req.raw 'close': the client goes away and the interval is cleared
ClientCloses ==
  /\ sseStream = "open"
  /\ sseStream' = "closed"
  /\ UNCHANGED <<sseIndex, sseParsed, sseStore, sseReceived, sseJoined>>

(***************************************************************************)
(*        GRAPH CACHE AND REPO DELETION: loadRepo, evictRepo, DELETE       *)
(*       src/unnamed/part_004:42-50, 204-226, 287-292, 352-388             *)
(* One repository; what the entries hold is left out here.                 *)
(***************************************************************************)

\* most operations on the repository
MaxCacheOps == 3

CacheOp(kind, pc) == [kind |-> kind, pc |-> pc]

EvictIdle == repoCached = FALSE /\ repoDeleted = FALSE /\ cacheOps = <<>>

\* the repository is registered; warmupAllRepos has loaded it or the server
\* has not come to it yet
EvictInit == repoCached \in BOOLEAN /\ repoDeleted = FALSE /\ cacheOps = <<>>

\* POST /api/repos: the full index is scheduled
PostRepo ==
  /\ ~repoDeleted /\ Len(cacheOps) < MaxCacheOps
  /\ cacheOps' = Append(cacheOps, CacheOp("fullIndex", "indexing"))
  /\ UNCHANGED <<repoCached, repoDeleted>>

\* a push webhook for the repository: the callback is scheduled
PushArrives ==
  /\ Len(cacheOps) < MaxCacheOps
  /\ cacheOps' = Append(cacheOps, CacheOp("push", "queued"))
  /\ UNCHANGED <<repoCached, repoDeleted>>

\* the push callback: cache.get(repoId) ?? loadRepo(repoId)
GetOrLoadRepo(o) ==
  /\ o \in 1..Len(cacheOps) /\ cacheOps[o] = CacheOp("push", "queued")
  /\ cacheOps' = [cacheOps EXCEPT ![o].pc = IF repoCached THEN "updating" ELSE "loading"]
  /\ UNCHANGED <<repoCached, repoDeleted>>

\* indexer.fullIndex returns; loadRepo is called
FullIndexReturns(o) ==
  /\ o \in 1..Len(cacheOps) /\ cacheOps[o] = CacheOp("fullIndex", "indexing")
  /\ cacheOps' = [cacheOps EXCEPT ![o].pc = "loading"]
  /\ UNCHANGED <<repoCached, repoDeleted>>

\* loadRepo, after its awaits: cache.set(repoId, entry)
LoadRepoSets(o) ==
  /\ o \in 1..Len(cacheOps) /\ cacheOps[o].pc = "loading"
  /\ repoCached' = TRUE
  /\ cacheOps' = [cacheOps EXCEPT ![o].pc = IF cacheOps[o].kind = "push" THEN "updating" ELSE "done"]
  /\ UNCHANGED repoDeleted

\* incrementalUpdate returns
UpdateReturns(o) ==
  /\ o \in 1..Len(cacheOps) /\ cacheOps[o] = CacheOp("push", "updating")
  /\ cacheOps' = [cacheOps EXCEPT ![o].pc = "done"]
  /\ UNCHANGED <<repoCached, repoDeleted>>

\* DELETE /api/repos/:id: the wait for the DELETE FROM repos
DeleteArrives ==
  /\ ~repoDeleted /\ Len(cacheOps) < MaxCacheOps
  /\ cacheOps' = Append(cacheOps, CacheOp("delete", "query"))
  /\ UNCHANGED <<repoCached, repoDeleted>>

\* the query has returned: evictRepo(repoId), reply 204
DeleteCompletes(o) ==
  /\ o \in 1..Len(cacheOps) /\ cacheOps[o] = CacheOp("delete", "query")
  /\ repoCached' = FALSE
  /\ repoDeleted' = TRUE
  /\ cacheOps' = [cacheOps EXCEPT ![o].pc = "done"]

CacheOpIds == 1..MaxCacheOps

(***************************************************************************)
(*                 RESPONSE PARSER: parseCommentBlocks                     *)
(*                      src/src/llm/parser.ts:19-40                        *)
(* A response is taken apart at its "[File:" markers: every block is what  *)
(* stands between "Line:" and the next "]" (or the end of the marker), and *)
(* the text up to the next marker.                                         *)
(***************************************************************************)

\* most blocks of a response, most characters written for a line number
MaxBlocks == 2
MaxLineChars == 2

DecimalDigits == <<"0", "1", "2", "3", "4", "5", "6", "7", "8", "9">>
\* the characters a model writes for a line number: digits and others
LineChars == {"0", "1", "x"}
LineTexts == SeqsUpTo(LineChars, MaxLineChars)

\* a block: the marker's path, the text written for the line, and the
\* body up to the next marker ("" : nothing but white space)
Blocks == [path : {"a.ts"}, lineText : LineTexts, body : {"", "text"}]
Responses == SeqsUpTo(Blocks, MaxBlocks)

IsDigit(c) == \E d \in 1..Len(DecimalDigits) : DecimalDigits[d] = c

\* (\d+)\] : the line text is one or more digits
MatchesPattern(block) ==
  /\ block.lineText # <<>>
  /\ \A k \in 1..Len(block.lineText) : IsDigit(block.lineText[k])

RECURSIVE parseInt(_, _)
\* parseInt(line) of a string of digits, read up to its k-th character
parseInt(str, k) ==
  IF k = 0 THEN 0
  ELSE 10 * parseInt(str, k - 1)
         + (CHOOSE d \in 0..9 : DecimalDigits[d + 1] = str[k])

RECURSIVE parseBlocks(_, _)
\* the while loop over the matches of the pattern
parseBlocks(response, k) ==
  IF k > Len(response) THEN <<>>
  ELSE IF ~MatchesPattern(response[k]) THEN parseBlocks(response, k + 1)
  ELSE IF response[k].body = "" THEN parseBlocks(response, k + 1)
  ELSE <<[path |-> response[k].path,
          line |-> parseInt(response[k].lineText, Len(response[k].lineText)),
          body |-> response[k].body]>> \o parseBlocks(response, k + 1)

parseCommentBlocks(response) == parseBlocks(response, 1)

ParseIdle == lResponse = <<>> /\ lParsed = None

\* the LLM has answered
ParseInit == lResponse \in Responses /\ lParsed = None

ParseCommentBlocks ==
  /\ lParsed = None
  /\ lParsed' = Some(parseCommentBlocks(lResponse))
  /\ UNCHANGED lResponse

(***************************************************************************)
(*               DIFF ENGINE on files of up to ten lines                   *)
(*               src/src/adapters/vcs/azure-devops.ts:191-292              *)
(* The files of SpecDiff are too short for a hunk to leave out a line.     *)
(* Here a file of distinct lines is diffed against a copy with a few       *)
(* lines replaced, dropped or inserted, at the code's own limit of the LCS *)
(* table, so that context, merging and several hunks are seen.             *)
(***************************************************************************)

\* longest old file, most places where the new file differs
MaxHunkLines == 9
MaxChanges == 2

\* m * n above which lcsEdits gives up
LcsCells == 600000

BaseLines == <<"a", "b", "c", "d", "e", "f", "g", "h", "i", "j", "k">>

ChangeKinds == {"replace", "drop", "insert"}

\* for a file of n lines: which lines differ in the new file, and how
ChangeSets(n) ==
  UNION {[P -> ChangeKinds] : P \in {Q \in SUBSET (1..n) : Cardinality(Q) <= MaxChanges}}

RECURSIVE ChangedLines(_, _, _)
\* the new file: the first n base lines with the changes applied
ChangedLines(n, changes, k) ==
  IF k > n THEN <<>>
  ELSE (IF k \notin DOMAIN changes THEN <<BaseLines[k]>>
        ELSE IF changes[k] = "replace" THEN <<"X">>
        ELSE IF changes[k] = "drop" THEN <<>>
        ELSE <<"X", BaseLines[k]>>) \o ChangedLines(n, changes, k + 1)

\* the content whose lines these are
ContentOf(lines) == IF lines = <<>> THEN <<"">> ELSE lines

\* lcsEdits with the limit of the code
lcsEditsAtCodeLimit(oldLines, newLines) ==
  LET m == Len(oldLines)
      n == Len(newLines)
  IN IF m * n > LcsCells
       THEN FullReplacement(oldLines, newLines)
       ELSE Backtrack(LcsTable(oldLines, newLines), oldLines, newLines, m, n)

\* computeFileDiff with the limit of the code
computeFileDiffAtCodeLimit(oldContent, newContent) ==
  LET oldLines == SplitLines(oldContent)
      newLines == SplitLines(newContent)
      edits    == lcsEditsAtCodeLimit(oldLines, newLines)
  IN IF Len(oldLines) = 0 /\ Len(newLines) = 0
       THEN [additions |-> 0, deletions |-> 0, hunks |-> <<>>, edits |-> <<>>]
       ELSE [additions |-> Len(SelectSeq(edits, IsAdd)),
             deletions |-> Len(SelectSeq(edits, IsRemove)),
             hunks     |-> buildHunks(edits, HunkContext),
             edits     |-> edits]

HunksInit ==
  /\ \E n \in 1..MaxHunkLines : \E changes \in ChangeSets(n) :
       /\ dOld = SubSeq(BaseLines, 1, n)
       /\ dNew = ContentOf(ChangedLines(n, changes, 1))
  /\ dResult = NoDiff
  /\ dPc = "input"

\* getFileDiff: the two snapshots are diffed
ComputeSmallFileDiff ==
  /\ dPc = "input"
  /\ dResult' = computeFileDiffAtCodeLimit(dOld, dNew)
  /\ dPc' = "done"
  /\ UNCHANGED <<dOld, dNew>>

(***************************************************************************)
(*                  RUN REVIEW: the API layer's bridge                     *)
(*   src/packages/api/src/review-runner.ts:22-90, src/src/index.ts:56-98   *)
(* runReview asks the graph cache for the repo's entry, has the entry's    *)
(* Retriever assemble the graph context, and calls PRReviewAgent.review    *)
(* and postReview.                                                         *)
(***************************************************************************)

\* the ReviewContext of PRReviewAgent.review: { pr, diff, files, tickets,
\* skills, config }.  review is declared with the one parameter prId; a
\* second argument of a call is not read, and the context has no graph
\* context
ReviewContextOf(paths, graphContext) ==
  [diff |-> paths, graphContext |-> None]

RunReviewIdle ==
  /\ vPc = "idle" /\ vLlmContext = None /\ vPosted = FALSE

\* runReview(opts) begins: the cache holds a graph for the repo or none,
\* and the PR changes some files
RunReviewInit ==
  /\ rGraph \in {None} \cup {Some(g) : g \in ContextGraphs}
  /\ rChanged \in SUBSET {"x.ts", "y.ts"}
  /\ rDepth \in Depths
  /\ rEmbeddings \in BOOLEAN
  /\ rResults = <<>>
  /\ rContext = None
  /\ vPc = "start"
  /\ vLlmContext = None
  /\ vPosted = FALSE

\* const entry = getRepo(repoId, baseBranch); if (entry) { diff = await
\* fetchDiffString(...); if (diff) graphContext = await
\* entry.retriever.getReviewContext(diff, repoId) }.  fetchDiffString is
\* null when getDiff throws and the empty string for a diff of no files
AssembleGraphContext ==
  /\ vPc = "start"
  /\ \E getDiffOk \in BOOLEAN :
       IF rGraph # None /\ getDiffOk /\ rChanged # {}
         THEN \E results \in IF Searches(rGraph[1], rChanged, rDepth, rEmbeddings)
                               THEN SearchResults ELSE {<<>>} :
                /\ rResults' = results
                /\ rContext' = Some(getReviewContext(rGraph[1], rChanged, rDepth, rEmbeddings, results))
         ELSE UNCHANGED <<rResults, rContext>>
  /\ vPc' = "review"
  /\ UNCHANGED <<rGraph, rChanged, rDepth, rEmbeddings, vLlmContext, vPosted>>

\* agent.review(prNumber, graphContext): the context is built and handed
\* to llm.generateReview, which answers
AgentReview ==
  /\ vPc = "review"
  /\ vLlmContext' = Some(ReviewContextOf(rChanged, rContext))
  /\ vPc' = "posting"
  /\ UNCHANGED <<retrVars, vPosted>>

\* agent.review(prNumber, graphContext), llm.generateReview throwing
AgentReviewFails ==
  /\ vPc = "review"
  /\ vLlmContext' = Some(ReviewContextOf(rChanged, rContext))
  /\ vPc' = "failed"
  /\ UNCHANGED <<retrVars, vPosted>>

\* agent.postReview(prNumber, result) returns
AgentPostReview ==
  /\ vPc = "posting"
  /\ vPosted' = TRUE
  /\ vPc' = "done"
  /\ UNCHANGED <<retrVars, vLlmContext>>

\* agent.postReview(prNumber, result) throws
AgentPostReviewFails ==
  /\ vPc = "posting"
  /\ vPc' = "post failed"
  /\ UNCHANGED <<retrVars, vLlmContext, vPosted>>

(***************************************************************************)
(*             REVIEW AGENT: one agent, several pull requests              *)
(*                        src/src/index.ts:33, 56-128                      *)
(***************************************************************************)

\* most calls made on the agent
MaxAgentCalls == 3

PullRequests == {1, 2}

\* the diff of a PR on the host: one changed file
DiffsOnHost ==
  {[files |-> <<[path |-> Path(lead, name), plus |-> {1}]>>] :
     lead \in BOOLEAN, name \in {"a.ts", "c.ts"}}

AgentIdle ==
  /\ aDiffs = <<>> /\ aLastDiff = None /\ aPost = None /\ aCalls = 0

\* new PRReviewAgent(config): private lastDiff: Diff | null = null
AgentInit ==
  /\ aDiffs \in [PullRequests -> DiffsOnHost]
  /\ aLastDiff = None
  /\ aPost = None
  /\ aCalls = 0

\* agent.review(p), the LLM answering: this.lastDiff = diff
ReviewOfPR(p) ==
  /\ aCalls < MaxAgentCalls
  /\ aLastDiff' = Some(aDiffs[p])
  /\ aCalls' = aCalls + 1
  /\ UNCHANGED <<aDiffs, aPost>>

\* agent.review(p), llm.generateReview throwing before the assignment to
\* lastDiff: the caller catches the error and keeps the agent
ReviewOfPRFails(p) ==
  /\ aCalls < MaxAgentCalls
  /\ aCalls' = aCalls + 1
  /\ UNCHANGED <<aDiffs, aLastDiff, aPost>>

\* agent.postReview(p, result): the comments handed to vcs.submitReview
PostReviewOfPR(p, result) ==
  /\ aCalls < MaxAgentCalls
  /\ LET diff == DiffForPost(aLastDiff, aDiffs[p])
     IN aPost' = Some([pr |-> p, comments |-> result.comments,
                       submitted |-> ValidComments(diff, result.comments)])
  /\ aCalls' = aCalls + 1
  /\ UNCHANGED <<aDiffs, aLastDiff>>

(***************************************************************************)
(*                     MEMORY STORE: import and export                     *)
(*                      src/unnamed/part_001:43-256                        *)
(* The store is the directory of rule files, one <id>.yaml per rule.       *)
(***************************************************************************)

\* most rules of an imported YAML document
MaxYamlRules == 2
\* most rules the store holds before an import
MaxStored == 2

\* ids a YAML document may carry, and the ids generateId hands out
GivenIds == {<<"r", n>> : n \in 1..2}
GeneratedIds == {<<"rule", n>> : n \in 1..(MaxStored + 2 * MaxYamlRules)}
RuleTexts == {"a", "b"}

\* a stored rule; its file is <id>.yaml
Rule(id, text) == [id |-> id, text |-> text]

\* a rule of a YAML document: its id may be missing
YamlRule(id, text) == [id |-> id, text |-> text]
YamlDocs ==
  SeqsUpTo({YamlRule(id, t) : id \in {None} \cup {Some(i) : i \in GivenIds}, t \in RuleTexts},
           MaxYamlRules)

\* generateId(): rule_<timestamp>_<random>, an id no file has
generateId(store) ==
  CHOOSE g \in GeneratedIds : \A r \in store : r.id # g

\* getRule(id): the rule of <id>.yaml, or null
getRule(store, id) ==
  IF \E r \in store : r.id = id THEN Some(CHOOSE r \in store : r.id = id) ELSE None

\* fs.writeFileSync(getRulePath(rule.id), yaml.dump(rule))
writeRule(store, rule) == {r \in store : r.id # rule.id} \cup {rule}

RECURSIVE importLoopOverwriting(_, _, _, _, _)
\* the loop writing every rule, as if overwrite were always given
importLoopOverwriting(store, imported, k, overwrite, count) ==
  IF k > Len(imported) THEN [store |-> store, count |-> count]
  ELSE LET rule == imported[k]
           id   == IF rule.id # None THEN rule.id[1] ELSE generateId(store)
       IN importLoopOverwriting(writeRule(store, Rule(id, rule.text)), imported, k + 1,
                                overwrite, count + 1)

RECURSIVE importLoop(_, _, _, _, _)
\* for (const rule of imported): a rule whose id has a file is skipped
\* unless overwrite; a rule without id gets a generated one
importLoop(store, imported, k, overwrite, count) ==
  IF k > Len(imported) THEN [store |-> store, count |-> count]
  ELSE LET rule     == imported[k]
           existing == IF rule.id # None THEN getRule(store, rule.id[1]) ELSE None
       IN IF existing # None /\ ~overwrite
            THEN importLoop(store, imported, k + 1, overwrite, count)
            ELSE LET id == IF rule.id # None THEN rule.id[1] ELSE generateId(store)
                 IN importLoop(writeRule(store, Rule(id, rule.text)), imported, k + 1,
                               overwrite, count + 1)

\* importRules(yamlContent, overwrite): the store afterwards and the count
importRules(store, yamlContent, overwrite) ==
  importLoop(store, yamlContent, 1, overwrite, 0)

RECURSIVE listRules(_)
\* listRules(): the rules of all files, in some order
listRules(store) ==
  IF store = {} THEN <<>>
  ELSE LET r == CHOOSE x \in store : TRUE
       IN <<r>> \o listRules(store \ {r})

\* exportRules(): yaml.dump(listRules()); every rule is written with its id
exportRules(store) ==
  LET rules == listRules(store)
  IN [k \in 1..Len(rules) |-> YamlRule(Some(rules[k].id), rules[k].text)]

MemoryIdle ==
  /\ mStore = {} /\ mYaml = None /\ mBefore = None /\ mCount = 0 /\ mPc = "idle"

\* the memory directory is empty or holds a rule of an earlier import
MemoryInit ==
  /\ mStore \in {{}} \cup {{Rule(i, t)} : i \in GivenIds, t \in RuleTexts}
  /\ mYaml = None
  /\ mBefore = None
  /\ mCount = 0
  /\ mPc = "ready"

\* agnus remember <rule>: addRule
AddRule ==
  /\ mPc = "ready"
  /\ Cardinality(mStore) < MaxStored
  /\ \E t \in RuleTexts : mStore' = writeRule(mStore, Rule(generateId(mStore), t))
  /\ UNCHANGED <<mYaml, mBefore, mCount, mPc>>

\* agnus memory remove <id>: removeRule
RemoveRule ==
  /\ mPc = "ready"
  /\ \E r \in mStore : mStore' = mStore \ {r}
  /\ UNCHANGED <<mYaml, mBefore, mCount, mPc>>

\* agnus memory import <file>, without --overwrite
ImportFile ==
  /\ mPc = "ready"
  /\ \E doc \in YamlDocs :
       LET out == importRules(mStore, doc, FALSE)
       IN /\ mYaml' = Some(doc)
          /\ mBefore' = Some(mStore)
          /\ mStore' = out.store
          /\ mCount' = out.count
  /\ mPc' = "imported"

\* the same file is imported once more, without --overwrite
ImportFileAgain ==
  /\ mPc = "imported"
  /\ LET out == importRules(mStore, mYaml[1], FALSE)
     IN /\ mBefore' = Some(mStore)
        /\ mStore' = out.store
        /\ mCount' = out.count
  /\ mPc' = "imported twice"
  /\ UNCHANGED mYaml

\* importRules(exportRules())
ImportExported ==
  /\ mPc = "ready"
  /\ LET doc == exportRules(mStore)
         out == importRules(mStore, doc, FALSE)
     IN /\ mYaml' = Some(doc)
        /\ mBefore' = Some(mStore)
        /\ mStore' = out.store
        /\ mCount' = out.count
  /\ mPc' = "round trip"

(***************************************************************************)
(*                           SPECIFICATIONS                                *)
(***************************************************************************)

vars == <<diffVars, filterVars, postVars, cliVars, srvVars, graphVars, indexVars, retrVars, fbVars, sseVars, evictVars, parseVars, travVars, runVars, agentVars, memVars>>

SpecDiffInit == DiffInit /\ FilterIdle /\ PostIdle /\ CliIdle /\ SrvIdle /\ GraphIdle /\ IndexIdle /\ RetrieverIdle /\ FeedbackIdle /\ SseIdle /\ EvictIdle /\ ParseIdle /\ TraverseIdle /\ RunReviewIdle /\ AgentIdle /\ MemoryIdle
SpecDiffNext == ComputeFileDiff /\ UNCHANGED <<filterVars, postVars, cliVars, srvVars, graphVars, indexVars, retrVars, fbVars, sseVars, evictVars, parseVars, travVars, runVars, agentVars, memVars>>
SpecDiff == SpecDiffInit /\ [][SpecDiffNext]_vars

SpecFilterInit == FilterInit /\ DiffIdle /\ PostIdle /\ CliIdle /\ SrvIdle /\ GraphIdle /\ IndexIdle /\ RetrieverIdle /\ FeedbackIdle /\ SseIdle /\ EvictIdle /\ ParseIdle /\ TraverseIdle /\ RunReviewIdle /\ AgentIdle /\ MemoryIdle
SpecFilterNext == FilterByConfidence /\ UNCHANGED <<diffVars, postVars, cliVars, srvVars, graphVars, indexVars, retrVars, fbVars, sseVars, evictVars, parseVars, travVars, runVars, agentVars, memVars>>
SpecFilter == SpecFilterInit /\ [][SpecFilterNext]_vars

SpecPostInit == PostInit /\ DiffIdle /\ FilterIdle /\ CliIdle /\ SrvIdle /\ GraphIdle /\ IndexIdle /\ RetrieverIdle /\ FeedbackIdle /\ SseIdle /\ EvictIdle /\ ParseIdle /\ TraverseIdle /\ RunReviewIdle /\ AgentIdle /\ MemoryIdle
SpecPostNext ==
  \/ Review /\ UNCHANGED <<diffVars, filterVars, cliVars, srvVars, graphVars, indexVars, retrVars, fbVars, sseVars, evictVars, parseVars, travVars, runVars, agentVars, memVars>>
  \/ ReviewFails /\ UNCHANGED <<diffVars, filterVars, cliVars, srvVars, graphVars, indexVars, retrVars, fbVars, sseVars, evictVars, parseVars, travVars, runVars, agentVars, memVars>>
  \/ PostReview /\ UNCHANGED <<diffVars, filterVars, cliVars, srvVars, graphVars, indexVars, retrVars, fbVars, sseVars, evictVars, parseVars, travVars, runVars, agentVars, memVars>>
  \/ RunAgain /\ UNCHANGED <<diffVars, filterVars, cliVars, srvVars, graphVars, indexVars, retrVars, fbVars, sseVars, evictVars, parseVars, travVars, runVars, agentVars, memVars>>
SpecPost == SpecPostInit /\ [][SpecPostNext]_vars

SpecCliInit == CliInit /\ DiffIdle /\ FilterIdle /\ SrvIdle /\ GraphIdle /\ IndexIdle /\ RetrieverIdle /\ FeedbackIdle /\ SseIdle /\ EvictIdle /\ ParseIdle /\ TraverseIdle /\ RunReviewIdle /\ AgentIdle /\ MemoryIdle
SpecCliNext ==
  \/ CliReview /\ UNCHANGED <<diffVars, filterVars, srvVars, graphVars, indexVars, retrVars, fbVars, sseVars, evictVars, parseVars, travVars, runVars, agentVars, memVars>>
  \/ CliReviewFails /\ UNCHANGED <<diffVars, filterVars, srvVars, graphVars, indexVars, retrVars, fbVars, sseVars, evictVars, parseVars, travVars, runVars, agentVars, memVars>>
  \/ CliPost /\ UNCHANGED <<diffVars, filterVars, srvVars, graphVars, indexVars, retrVars, fbVars, sseVars, evictVars, parseVars, travVars, runVars, agentVars, memVars>>
  \/ Push /\ UNCHANGED <<diffVars, filterVars, srvVars, graphVars, indexVars, retrVars, fbVars, sseVars, evictVars, parseVars, travVars, runVars, agentVars, memVars>>
  \/ CorruptCheckpoint /\ UNCHANGED <<diffVars, filterVars, srvVars, graphVars, indexVars, retrVars, fbVars, sseVars, evictVars, parseVars, travVars, runVars, agentVars, memVars>>
  \/ CliRunAgain /\ UNCHANGED <<diffVars, filterVars, srvVars, graphVars, indexVars, retrVars, fbVars, sseVars, evictVars, parseVars, travVars, runVars, agentVars, memVars>>
SpecCli == SpecCliInit /\ [][SpecCliNext]_vars

SpecServerInit == SrvInit /\ DiffIdle /\ FilterIdle /\ PostIdle /\ CliIdle /\ GraphIdle /\ IndexIdle /\ RetrieverIdle /\ FeedbackIdle /\ SseIdle /\ EvictIdle /\ ParseIdle /\ TraverseIdle /\ RunReviewIdle /\ AgentIdle /\ MemoryIdle
SpecServerNext ==
  \/ GitHubWebhook /\ UNCHANGED <<diffVars, filterVars, postVars, cliVars, graphVars, indexVars, retrVars, fbVars, sseVars, evictVars, parseVars, travVars, runVars, agentVars, memVars>>
  \/ AzureWebhook /\ UNCHANGED <<diffVars, filterVars, postVars, cliVars, graphVars, indexVars, retrVars, fbVars, sseVars, evictVars, parseVars, travVars, runVars, agentVars, memVars>>
  \/ \E t \in TaskIds : IndexStartCached(t) /\ UNCHANGED <<diffVars, filterVars, postVars, cliVars, graphVars, indexVars, retrVars, fbVars, sseVars, evictVars, parseVars, travVars, runVars, agentVars, memVars>>
  \/ \E t \in TaskIds : IndexStartLoad(t) /\ UNCHANGED <<diffVars, filterVars, postVars, cliVars, graphVars, indexVars, retrVars, fbVars, sseVars, evictVars, parseVars, travVars, runVars, agentVars, memVars>>
  \/ \E t \in TaskIds : IndexLoaded(t) /\ UNCHANGED <<diffVars, filterVars, postVars, cliVars, graphVars, indexVars, retrVars, fbVars, sseVars, evictVars, parseVars, travVars, runVars, agentVars, memVars>>
  \/ \E t \in TaskIds : IndexParse(t) /\ UNCHANGED <<diffVars, filterVars, postVars, cliVars, graphVars, indexVars, retrVars, fbVars, sseVars, evictVars, parseVars, travVars, runVars, agentVars, memVars>>
  \/ \E t \in TaskIds : IndexNextFile(t) /\ UNCHANGED <<diffVars, filterVars, postVars, cliVars, graphVars, indexVars, retrVars, fbVars, sseVars, evictVars, parseVars, travVars, runVars, agentVars, memVars>>
  \/ \E t \in TaskIds : IndexResolve(t) /\ UNCHANGED <<diffVars, filterVars, postVars, cliVars, graphVars, indexVars, retrVars, fbVars, sseVars, evictVars, parseVars, travVars, runVars, agentVars, memVars>>
  \/ \E t \in TaskIds : IndexSaved(t) /\ UNCHANGED <<diffVars, filterVars, postVars, cliVars, graphVars, indexVars, retrVars, fbVars, sseVars, evictVars, parseVars, travVars, runVars, agentVars, memVars>>
  \/ \E t \in TaskIds : IndexFails(t) /\ UNCHANGED <<diffVars, filterVars, postVars, cliVars, graphVars, indexVars, retrVars, fbVars, sseVars, evictVars, parseVars, travVars, runVars, agentVars, memVars>>
  \/ \E t \in TaskIds : ReviewStart(t) /\ UNCHANGED <<diffVars, filterVars, postVars, cliVars, graphVars, indexVars, retrVars, fbVars, sseVars, evictVars, parseVars, travVars, runVars, agentVars, memVars>>
  \/ \E t \in TaskIds : ReviewSetup(t) /\ UNCHANGED <<diffVars, filterVars, postVars, cliVars, graphVars, indexVars, retrVars, fbVars, sseVars, evictVars, parseVars, travVars, runVars, agentVars, memVars>>
  \/ \E t \in TaskIds : ReviewContext(t) /\ UNCHANGED <<diffVars, filterVars, postVars, cliVars, graphVars, indexVars, retrVars, fbVars, sseVars, evictVars, parseVars, travVars, runVars, agentVars, memVars>>
  \/ \E t \in TaskIds : ReviewGenerated(t) /\ UNCHANGED <<diffVars, filterVars, postVars, cliVars, graphVars, indexVars, retrVars, fbVars, sseVars, evictVars, parseVars, travVars, runVars, agentVars, memVars>>
  \/ \E t \in TaskIds : ReviewPosted(t) /\ UNCHANGED <<diffVars, filterVars, postVars, cliVars, graphVars, indexVars, retrVars, fbVars, sseVars, evictVars, parseVars, travVars, runVars, agentVars, memVars>>
SpecServer == SpecServerInit /\ [][SpecServerNext]_vars

SpecBfsInit == BfsInit /\ DiffIdle /\ FilterIdle /\ PostIdle /\ CliIdle /\ SrvIdle /\ IndexIdle /\ RetrieverIdle /\ FeedbackIdle /\ SseIdle /\ EvictIdle /\ ParseIdle /\ TraverseIdle /\ RunReviewIdle /\ AgentIdle /\ MemoryIdle
SpecBfsNext == GetCallers /\ UNCHANGED <<diffVars, filterVars, postVars, cliVars, srvVars, indexVars, retrVars, fbVars, sseVars, evictVars, parseVars, travVars, runVars, agentVars, memVars>>
SpecBfs == SpecBfsInit /\ [][SpecBfsNext]_vars

SpecBlastInit == BlastInit /\ DiffIdle /\ FilterIdle /\ PostIdle /\ CliIdle /\ SrvIdle /\ IndexIdle /\ RetrieverIdle /\ FeedbackIdle /\ SseIdle /\ EvictIdle /\ ParseIdle /\ TraverseIdle /\ RunReviewIdle /\ AgentIdle /\ MemoryIdle
SpecBlastNext == GetBlastRadius /\ UNCHANGED <<diffVars, filterVars, postVars, cliVars, srvVars, indexVars, retrVars, fbVars, sseVars, evictVars, parseVars, travVars, runVars, agentVars, memVars>>
SpecBlast == SpecBlastInit /\ [][SpecBlastNext]_vars

SpecIndexInit == IndexInit /\ DiffIdle /\ FilterIdle /\ PostIdle /\ CliIdle /\ SrvIdle /\ GraphIdle /\ RetrieverIdle /\ FeedbackIdle /\ SseIdle /\ EvictIdle /\ ParseIdle /\ TraverseIdle /\ RunReviewIdle /\ AgentIdle /\ MemoryIdle
SpecIndexNext ==
  \/ FilePushed /\ UNCHANGED <<diffVars, filterVars, postVars, cliVars, srvVars, graphVars, retrVars, fbVars, sseVars, evictVars, parseVars, travVars, runVars, agentVars, memVars>>
  \/ RemoveFile /\ UNCHANGED <<diffVars, filterVars, postVars, cliVars, srvVars, graphVars, retrVars, fbVars, sseVars, evictVars, parseVars, travVars, runVars, agentVars, memVars>>
  \/ Reparse /\ UNCHANGED <<diffVars, filterVars, postVars, cliVars, srvVars, graphVars, retrVars, fbVars, sseVars, evictVars, parseVars, travVars, runVars, agentVars, memVars>>
  \/ ResolveNames /\ UNCHANGED <<diffVars, filterVars, postVars, cliVars, srvVars, graphVars, retrVars, fbVars, sseVars, evictVars, parseVars, travVars, runVars, agentVars, memVars>>
SpecIndex == SpecIndexInit /\ [][SpecIndexNext]_vars

SpecRetrieverInit == RetrieverInit /\ DiffIdle /\ FilterIdle /\ PostIdle /\ CliIdle /\ SrvIdle /\ GraphIdle /\ IndexIdle /\ FeedbackIdle /\ SseIdle /\ EvictIdle /\ ParseIdle /\ TraverseIdle /\ RunReviewIdle /\ AgentIdle /\ MemoryIdle
SpecRetrieverNext == GetReviewContext /\ UNCHANGED <<diffVars, filterVars, postVars, cliVars, srvVars, graphVars, indexVars, fbVars, sseVars, evictVars, parseVars, travVars, runVars, agentVars, memVars>>
SpecRetriever == SpecRetrieverInit /\ [][SpecRetrieverNext]_vars

SpecFeedbackInit == FeedbackInit /\ DiffIdle /\ FilterIdle /\ PostIdle /\ CliIdle /\ SrvIdle /\ GraphIdle /\ IndexIdle /\ RetrieverIdle /\ SseIdle /\ EvictIdle /\ ParseIdle /\ TraverseIdle /\ RunReviewIdle /\ AgentIdle /\ MemoryIdle
SpecFeedbackNext ==
  \/ FeedbackAccepted /\ UNCHANGED <<diffVars, filterVars, postVars, cliVars, srvVars, graphVars, indexVars, retrVars, sseVars, evictVars, parseVars, travVars, runVars, agentVars, memVars>>
  \/ FeedbackRefused /\ UNCHANGED <<diffVars, filterVars, postVars, cliVars, srvVars, graphVars, indexVars, retrVars, sseVars, evictVars, parseVars, travVars, runVars, agentVars, memVars>>
  \/ FeedbackThrows /\ UNCHANGED <<diffVars, filterVars, postVars, cliVars, srvVars, graphVars, indexVars, retrVars, sseVars, evictVars, parseVars, travVars, runVars, agentVars, memVars>>
SpecFeedback == SpecFeedbackInit /\ [][SpecFeedbackNext]_vars

SpecSseInit == SseInit /\ DiffIdle /\ FilterIdle /\ PostIdle /\ CliIdle /\ SrvIdle /\ GraphIdle /\ IndexIdle /\ RetrieverIdle /\ FeedbackIdle /\ EvictIdle /\ ParseIdle /\ TraverseIdle /\ RunReviewIdle /\ AgentIdle /\ MemoryIdle
SpecSseNext ==
  \/ FullIndexStarts /\ UNCHANGED <<diffVars, filterVars, postVars, cliVars, srvVars, graphVars, indexVars, retrVars, fbVars, evictVars, parseVars, travVars, runVars, agentVars, memVars>>
  \/ FileParsed /\ UNCHANGED <<diffVars, filterVars, postVars, cliVars, srvVars, graphVars, indexVars, retrVars, fbVars, evictVars, parseVars, travVars, runVars, agentVars, memVars>>
  \/ BatchEmbedded /\ UNCHANGED <<diffVars, filterVars, postVars, cliVars, srvVars, graphVars, indexVars, retrVars, fbVars, evictVars, parseVars, travVars, runVars, agentVars, memVars>>
  \/ FullIndexDone /\ UNCHANGED <<diffVars, filterVars, postVars, cliVars, srvVars, graphVars, indexVars, retrVars, fbVars, evictVars, parseVars, travVars, runVars, agentVars, memVars>>
  \/ RepoLoaded /\ UNCHANGED <<diffVars, filterVars, postVars, cliVars, srvVars, graphVars, indexVars, retrVars, fbVars, evictVars, parseVars, travVars, runVars, agentVars, memVars>>
  \/ FullIndexFails /\ UNCHANGED <<diffVars, filterVars, postVars, cliVars, srvVars, graphVars, indexVars, retrVars, fbVars, evictVars, parseVars, travVars, runVars, agentVars, memVars>>
  \/ Connect /\ UNCHANGED <<diffVars, filterVars, postVars, cliVars, srvVars, graphVars, indexVars, retrVars, fbVars, evictVars, parseVars, travVars, runVars, agentVars, memVars>>
  \/ PollTick /\ UNCHANGED <<diffVars, filterVars, postVars, cliVars, srvVars, graphVars, indexVars, retrVars, fbVars, evictVars, parseVars, travVars, runVars, agentVars, memVars>>
  \/ ClientCloses /\ UNCHANGED <<diffVars, filterVars, postVars, cliVars, srvVars, graphVars, indexVars, retrVars, fbVars, evictVars, parseVars, travVars, runVars, agentVars, memVars>>
\* the event loop runs every timer and every continuation that is due: the
\* interval keeps firing while it is set, and the background task goes on
\* while it has a next step; nothing makes a client connect or leave, and
\* nothing makes the index fail
SpecSseFairness ==
  LET Rest == UNCHANGED <<diffVars, filterVars, postVars, cliVars, srvVars, graphVars, indexVars, retrVars, fbVars, evictVars, parseVars, travVars, runVars, agentVars, memVars>>
  IN /\ WF_vars(PollTick /\ Rest)
     /\ WF_vars(FullIndexStarts /\ Rest) /\ WF_vars(FileParsed /\ Rest)
     /\ WF_vars((FullIndexDone \/ BatchEmbedded) /\ Rest) /\ WF_vars(RepoLoaded /\ Rest)
SpecSse == SpecSseInit /\ [][SpecSseNext]_vars /\ SpecSseFairness

SpecEvictInit == EvictInit /\ DiffIdle /\ FilterIdle /\ PostIdle /\ CliIdle /\ SrvIdle /\ GraphIdle /\ IndexIdle /\ RetrieverIdle /\ FeedbackIdle /\ SseIdle /\ ParseIdle /\ TraverseIdle /\ RunReviewIdle /\ AgentIdle /\ MemoryIdle
SpecEvictNext ==
  \/ PostRepo /\ UNCHANGED <<diffVars, filterVars, postVars, cliVars, srvVars, graphVars, indexVars, retrVars, fbVars, sseVars, parseVars, travVars, runVars, agentVars, memVars>>
  \/ PushArrives /\ UNCHANGED <<diffVars, filterVars, postVars, cliVars, srvVars, graphVars, indexVars, retrVars, fbVars, sseVars, parseVars, travVars, runVars, agentVars, memVars>>
  \/ DeleteArrives /\ UNCHANGED <<diffVars, filterVars, postVars, cliVars, srvVars, graphVars, indexVars, retrVars, fbVars, sseVars, parseVars, travVars, runVars, agentVars, memVars>>
  \/ \E o \in CacheOpIds : GetOrLoadRepo(o) /\ UNCHANGED <<diffVars, filterVars, postVars, cliVars, srvVars, graphVars, indexVars, retrVars, fbVars, sseVars, parseVars, travVars, runVars, agentVars, memVars>>
  \/ \E o \in CacheOpIds : FullIndexReturns(o) /\ UNCHANGED <<diffVars, filterVars, postVars, cliVars, srvVars, graphVars, indexVars, retrVars, fbVars, sseVars, parseVars, travVars, runVars, agentVars, memVars>>
  \/ \E o \in CacheOpIds : LoadRepoSets(o) /\ UNCHANGED <<diffVars, filterVars, postVars, cliVars, srvVars, graphVars, indexVars, retrVars, fbVars, sseVars, parseVars, travVars, runVars, agentVars, memVars>>
  \/ \E o \in CacheOpIds : UpdateReturns(o) /\ UNCHANGED <<diffVars, filterVars, postVars, cliVars, srvVars, graphVars, indexVars, retrVars, fbVars, sseVars, parseVars, travVars, runVars, agentVars, memVars>>
  \/ \E o \in CacheOpIds : DeleteCompletes(o) /\ UNCHANGED <<diffVars, filterVars, postVars, cliVars, srvVars, graphVars, indexVars, retrVars, fbVars, sseVars, parseVars, travVars, runVars, agentVars, memVars>>
SpecEvict == SpecEvictInit /\ [][SpecEvictNext]_vars

SpecParseInit == ParseInit /\ DiffIdle /\ FilterIdle /\ PostIdle /\ CliIdle /\ SrvIdle /\ GraphIdle /\ IndexIdle /\ RetrieverIdle /\ FeedbackIdle /\ SseIdle /\ EvictIdle /\ TraverseIdle /\ RunReviewIdle /\ AgentIdle /\ MemoryIdle
SpecParseNext == ParseCommentBlocks /\ UNCHANGED <<diffVars, filterVars, postVars, cliVars, srvVars, graphVars, indexVars, retrVars, fbVars, sseVars, evictVars, travVars, runVars, agentVars, memVars>>
SpecParse == SpecParseInit /\ [][SpecParseNext]_vars

SpecHunksInit == HunksInit /\ FilterIdle /\ PostIdle /\ CliIdle /\ SrvIdle /\ GraphIdle /\ IndexIdle /\ RetrieverIdle /\ FeedbackIdle /\ SseIdle /\ EvictIdle /\ ParseIdle /\ TraverseIdle /\ RunReviewIdle /\ AgentIdle /\ MemoryIdle
SpecHunksNext == ComputeSmallFileDiff /\ UNCHANGED <<filterVars, postVars, cliVars, srvVars, graphVars, indexVars, retrVars, fbVars, sseVars, evictVars, parseVars, travVars, runVars, agentVars, memVars>>
SpecHunks == SpecHunksInit /\ [][SpecHunksNext]_vars

SpecTraverseInit == TraverseInit /\ DiffIdle /\ FilterIdle /\ PostIdle /\ CliIdle /\ SrvIdle /\ IndexIdle /\ RetrieverIdle /\ FeedbackIdle /\ SseIdle /\ EvictIdle /\ ParseIdle /\ RunReviewIdle /\ AgentIdle /\ MemoryIdle
SpecTraverseNext == Traverse /\ UNCHANGED <<diffVars, filterVars, postVars, cliVars, srvVars, indexVars, retrVars, fbVars, sseVars, evictVars, parseVars, runVars, agentVars, memVars>>
SpecTraverse == SpecTraverseInit /\ [][SpecTraverseNext]_vars

SpecRunReviewInit == RunReviewInit /\ DiffIdle /\ FilterIdle /\ PostIdle /\ CliIdle /\ SrvIdle /\ GraphIdle /\ IndexIdle /\ FeedbackIdle /\ SseIdle /\ EvictIdle /\ ParseIdle /\ TraverseIdle /\ AgentIdle /\ MemoryIdle
SpecRunReviewNext ==
  \/ AssembleGraphContext /\ UNCHANGED <<diffVars, filterVars, postVars, cliVars, srvVars, graphVars, indexVars, fbVars, sseVars, evictVars, parseVars, travVars, agentVars, memVars>>
  \/ AgentReview /\ UNCHANGED <<diffVars, filterVars, postVars, cliVars, srvVars, graphVars, indexVars, fbVars, sseVars, evictVars, parseVars, travVars, agentVars, memVars>>
  \/ AgentReviewFails /\ UNCHANGED <<diffVars, filterVars, postVars, cliVars, srvVars, graphVars, indexVars, fbVars, sseVars, evictVars, parseVars, travVars, agentVars, memVars>>
  \/ AgentPostReview /\ UNCHANGED <<diffVars, filterVars, postVars, cliVars, srvVars, graphVars, indexVars, fbVars, sseVars, evictVars, parseVars, travVars, agentVars, memVars>>
  \/ AgentPostReviewFails /\ UNCHANGED <<diffVars, filterVars, postVars, cliVars, srvVars, graphVars, indexVars, fbVars, sseVars, evictVars, parseVars, travVars, agentVars, memVars>>
SpecRunReview == SpecRunReviewInit /\ [][SpecRunReviewNext]_vars

SpecAgentInit == AgentInit /\ DiffIdle /\ FilterIdle /\ PostIdle /\ CliIdle /\ SrvIdle /\ GraphIdle /\ IndexIdle /\ RetrieverIdle /\ FeedbackIdle /\ SseIdle /\ EvictIdle /\ ParseIdle /\ TraverseIdle /\ RunReviewIdle /\ MemoryIdle
SpecAgentNext ==
  \/ \E p \in PullRequests : ReviewOfPR(p) /\ UNCHANGED <<diffVars, filterVars, postVars, cliVars, srvVars, graphVars, indexVars, retrVars, fbVars, sseVars, evictVars, parseVars, travVars, runVars, memVars>>
  \/ \E p \in PullRequests : ReviewOfPRFails(p) /\ UNCHANGED <<diffVars, filterVars, postVars, cliVars, srvVars, graphVars, indexVars, retrVars, fbVars, sseVars, evictVars, parseVars, travVars, runVars, memVars>>
  \/ \E p \in PullRequests, result \in ReviewResults : PostReviewOfPR(p, result) /\ UNCHANGED <<diffVars, filterVars, postVars, cliVars, srvVars, graphVars, indexVars, retrVars, fbVars, sseVars, evictVars, parseVars, travVars, runVars, memVars>>
SpecAgent == SpecAgentInit /\ [][SpecAgentNext]_vars

SpecMemoryInit == MemoryInit /\ DiffIdle /\ FilterIdle /\ PostIdle /\ CliIdle /\ SrvIdle /\ GraphIdle /\ IndexIdle /\ RetrieverIdle /\ FeedbackIdle /\ SseIdle /\ EvictIdle /\ ParseIdle /\ TraverseIdle /\ RunReviewIdle /\ AgentIdle
SpecMemoryNext ==
  \/ AddRule /\ UNCHANGED <<diffVars, filterVars, postVars, cliVars, srvVars, graphVars, indexVars, retrVars, fbVars, sseVars, evictVars, parseVars, travVars, runVars, agentVars>>
  \/ RemoveRule /\ UNCHANGED <<diffVars, filterVars, postVars, cliVars, srvVars, graphVars, indexVars, retrVars, fbVars, sseVars, evictVars, parseVars, travVars, runVars, agentVars>>
  \/ ImportFile /\ UNCHANGED <<diffVars, filterVars, postVars, cliVars, srvVars, graphVars, indexVars, retrVars, fbVars, sseVars, evictVars, parseVars, travVars, runVars, agentVars>>
  \/ ImportFileAgain /\ UNCHANGED <<diffVars, filterVars, postVars, cliVars, srvVars, graphVars, indexVars, retrVars, fbVars, sseVars, evictVars, parseVars, travVars, runVars, agentVars>>
  \/ ImportExported /\ UNCHANGED <<diffVars, filterVars, postVars, cliVars, srvVars, graphVars, indexVars, retrVars, fbVars, sseVars, evictVars, parseVars, travVars, runVars, agentVars>>
SpecMemory == SpecMemoryInit /\ [][SpecMemoryNext]_vars

(***************************************************************************)
(*                               CLAIMS                                    *)
(***************************************************************************)

IsInline(call) == call.kind = "inline"

\* the inline comments the host has taken in the current run
InlineThisRun == SelectSeq(SubSeq(hostCalls, pCallsBefore + 1, Len(hostCalls)), IsInline)
\* the inline comments on the PR when the current run began
InlineBefore == SelectSeq(SubSeq(hostCalls, 1, pCallsBefore), IsInline)

\* the '+' lines of the file of the PR diff with this very path
PlusLinesAt(path) ==
  UNION {prDiff.files[k].plus : k \in {h \in 1..Len(prDiff.files) : prDiff.files[h].path = path}}

\* C1: every inline comment postReview hands to vcs.submitReview sits on a
\* line that is the new-file number of a '+' line of that path in the PR
\* diff.
C1_PostedOnAddedLines ==
  pSubmitted # None =>
    \A k \in 1..Len(pSubmitted[1].comments) :
      pSubmitted[1].comments[k].line \in PlusLinesAt(pSubmitted[1].comments[k].path)

\* C2: postReview drops every comment whose path, the leading "/" stripped,
\* is not the normalised path of a file of the PR diff, calls the host for
\* no such comment, and hands each surviving comment over under the diff's
\* original path of its file.
C2_PathsValidated ==
  pSubmitted # None =>
    LET InDiff(c) == \E f \in 1..Len(prDiff.files) :
                        Normalise(prDiff.files[f].path) = Normalise(c.path)
        kept   == SelectSeq(llmResponse.comments, InDiff)
        handed == pSubmitted[1].comments
    IN /\ Len(handed) = Len(kept)
       /\ \A k \in 1..Len(handed) :
            /\ handed[k].line = kept[k].line
            /\ handed[k].body = kept[k].body
            /\ \E f \in 1..Len(prDiff.files) :
                 /\ prDiff.files[f].path = handed[k].path
                 /\ Normalise(prDiff.files[f].path) = Normalise(kept[k].path)
       /\ Len(InlineThisRun) <= Len(handed)
       /\ \A k \in 1..Len(InlineThisRun) :
            /\ Normalise(InlineThisRun[k].path) = Normalise(handed[k].path)
            /\ InlineThisRun[k].line = handed[k].line

\* C2 witness: a review with a comment on c.ts, a file of no diff, and a
\* comment on "a.ts" for a diff that calls the file "/a.ts", posted in full
C2_Witness ==
  /\ pPc = "posted"
  /\ \E k \in 1..Len(llmResponse.comments) : llmResponse.comments[k].path = Path(FALSE, "c.ts")
  /\ \E k \in 1..Len(llmResponse.comments) : llmResponse.comments[k].path = Path(FALSE, "a.ts")
  /\ prDiff.files[1].path = Path(TRUE, "a.ts")
  /\ Len(pSubmitted[1].comments) = 1
  /\ pSubmitted[1].comments[1].path = Path(TRUE, "a.ts")
  /\ Len(InlineThisRun) = 1

\* C4: the post step run a second time for the same PR with the same LLM
\* response posts no inline comment whose (path, line, body) is already on
\* the PR.
C4_ReplayPostsNothingNew ==
  pRun >= 2 =>
    \A k \in 1..Len(InlineThisRun) :
      \A h \in 1..Len(InlineBefore) :
        ~ (/\ InlineThisRun[k].path = InlineBefore[h].path
           /\ InlineThisRun[k].line = InlineBefore[h].line
           /\ InlineThisRun[k].body = InlineBefore[h].body)

\* C3: filterByConfidence passes exactly the comments whose confidence is
\* >= T together with every comment that has no confidence score, and drops
\* all others.
C3_ScoredOrUnscoredPass ==
  fPc = "done" =>
    LET T == FinalThreshold(fThreshold)
        Kept(c) == c.confidence = Undefined \/ c.confidence >= T
        Rest(c) == ~Kept(c)
    IN /\ fResult.passed = SelectSeq(fComments, Kept)
       /\ fResult.dropped = SelectSeq(fComments, Rest)

C10_EditScriptYieldsNew ==
  dPc = "done" /\ (SplitLines(dOld) # <<>> \/ SplitLines(dNew) # <<>>) =>
    LET patched == Patched(dResult.edits, SplitLines(dOld))
    IN patched.fits /\ patched.out = SplitLines(dNew)

\* C10 witness: a diff taken on the full-replacement path of two files that
\* share a line, and so has removes and adds only
C10_Witness ==
  /\ dPc = "done"
  /\ Len(SplitLines(dOld)) * Len(SplitLines(dNew)) > LcsCellLimit
  /\ \E i \in 1..Len(dOld) : \E j \in 1..Len(dNew) : dOld[i] = dNew[j]
  /\ dResult.edits # <<>>
  /\ \A k \in 1..Len(dResult.edits) : IsChange(dResult.edits[k])

(***************************************************************************)
(* Claims about the webhook server (SpecServer)                            *)
(***************************************************************************)

IsReview(t) == t \in 1..Len(tasks) /\ tasks[t].kind = "review"
IsIndex(t)  == t \in 1..Len(tasks) /\ tasks[t].kind = "index"

\* the push callback is at work on the graph: incrementalUpdate has begun
\* and has neither returned nor thrown
Updating(t) == IsIndex(t) /\ tasks[t].pc \in {"parse", "parsed", "saving"}

\* runReview has been called and has neither returned nor thrown
Reviewing(t) == IsReview(t) /\ tasks[t].pc \in {"diff", "review", "posting"}

\* C6: what a review reads in the graph is the graph as it stood at the
\* boundary of a batch: as loaded, or as some batch left it after its last
\* file and resolveNames; never a graph with part of a batch applied.
C6_ReviewReadsWholeBatches ==
  \A t \in 1..Len(tasks) :
    (IsReview(t) /\ tasks[t].observed # None) => tasks[t].observed[1] \in sBoundaries

\* C7: no two indexing tasks are at work on the same graph at once, and
\* the batches complete in the order their webhooks were received.
C7_IndexingSerialised ==
  /\ \A t, u \in 1..Len(tasks) :
       (t < u /\ Updating(t) /\ Updating(u)) => tasks[t].entry # tasks[u].entry
  /\ \A i, j \in 1..Len(sApplied) : i < j => sApplied[i] < sApplied[j]

\* C8: for one pull request at most one review is running at a time: the
\* review of a later webhook is running only once the review of an earlier
\* webhook for the same pull request has finished posting (or has failed).
C8_OneReviewPerPR ==
  \A t, u \in 1..Len(tasks) :
    (t < u /\ IsReview(t) /\ tasks[t].pr = tasks[u].pr /\ Reviewing(u))
      => tasks[t].pc \in {"done", "failed"}

\* C9: with a secret configured, a request whose signature is missing or
\* wrong is answered 401 and schedules nothing, on either endpoint.
C9_SignatureBeforeScheduling ==
  (sSecret # "" /\ sLast # None /\ sLast[1].sig # "good")
    => (sLast[1].status = 401 /\ ~sLast[1].scheduled)

(***************************************************************************)
(* Further claims about the diff engine (SpecDiff)                         *)
(***************************************************************************)

\* the edit distance above which the diff engine is documented to give up
EditDistanceLimit == 8000

\* insertions plus deletions of a shortest edit script
EditDistance(oldLines, newLines) ==
  Len(oldLines) + Len(newLines) - 2 * LcsTable(oldLines, newLines)[Len(oldLines), Len(newLines)]

\* C11: whatever the sizes of the two files, a pair whose edit distance is
\* within the limit gets a diff of the changed lines only: as many added
\* and removed lines as the edit distance, never the full replacement.
C11_FallbackOnlyOnEditDistance ==
  (dPc = "done" /\ EditDistance(SplitLines(dOld), SplitLines(dNew)) <= EditDistanceLimit)
    => dResult.additions + dResult.deletions = EditDistance(SplitLines(dOld), SplitLines(dNew))

\* C12: a content diffed against an identical copy gives no hunk, no
\* addition and no deletion.
C12_IdenticalGivesNoHunks ==
  (dPc = "done" /\ dOld = dNew)
    => (dResult.hunks = <<>> /\ dResult.additions = 0 /\ dResult.deletions = 0)

(***************************************************************************)
(* Claims about the symbol graph (SpecBfs, SpecBlast)                      *)
(***************************************************************************)

\* the symbols of the graph with an edge into one of the ids of S
CallersOf(g, S) == {e.from : e \in {d \in g.edges : d.to \in S}} \cap g.symbols

\* the symbols other than s within one and within two inbound hops of s
WithinOneHop(g, s)  == CallersOf(g, {s}) \ {s}
WithinTwoHops(g, s) == (WithinOneHop(g, s) \cup CallersOf(g, WithinOneHop(g, s))) \ {s}

\* C13: directCallers and transitiveCallers are disjoint; transitiveCallers
\* holds exactly the symbols within two inbound hops of some seed that are
\* not a direct caller of any seed, each once.
C13_TransitiveDisjointFromDirect ==
  gBlast # None =>
    LET g == SymbolGraph(gSymbols, gEdges)
        direct == UNION {WithinOneHop(g, gSeeds[k]) : k \in 1..Len(gSeeds)}
        within == UNION {WithinTwoHops(g, gSeeds[k]) : k \in 1..Len(gSeeds)}
        b == gBlast[1]
    IN /\ Range(b.directCallers) \cap Range(b.transitiveCallers) = {}
       /\ Range(b.transitiveCallers) = within \ direct
       /\ Cardinality(Range(b.transitiveCallers)) = Len(b.transitiveCallers)

\* C14: riskScore is a whole number from 0 to 100 and equals
\* min(100, 10 * |directCallers| + 5 * |affectedFiles|), or that sum times
\* 1.5 (still at most 100) when more than 5 files are affected.
C14_RiskScoreFormula ==
  gBlast # None =>
    LET b == gBlast[1]
        base == 10 * Len(b.directCallers) + 5 * Cardinality(b.affectedFiles)
    IN /\ b.riskScore \in 0..100
       /\ \/ b.riskScore = Min(100, base)
          \/ Cardinality(b.affectedFiles) > 5 /\ b.riskScore = Min(100, RoundTimesOneAndHalf(base))

\* C15: getCallers(s, 0) is empty, and the callers within hops + 1 hops
\* include the callers within hops hops.
C15_CallersGrowWithHops ==
  /\ Len(gResults) >= 1 => gResults[1] = <<>>
  /\ \A k \in 1..(Len(gResults) - 1) : Range(gResults[k]) \subseteq Range(gResults[k + 1])

\* the seed is on a call cycle, has been asked for 0, 1 and 2 hops, and the
\* second hop found callers the first did not
C15_Witness ==
  /\ Len(gResults) >= 3
  /\ gResults[2] # <<>>
  /\ Range(gResults[3]) # Range(gResults[2])
  /\ \E x \in gSymbols : Edge(gSeeds[1], x) \in gEdges /\ Edge(x, gSeeds[1]) \in gEdges

(***************************************************************************)
(* Claims about the graph under an incremental update (SpecIndex)          *)
(***************************************************************************)

\* C16: when the pushed file has the bytes it had, the graph after
\* removeFile, re-parse and resolveNames is the graph before: the same
\* symbols and the same edges, those from other files into the file's
\* symbols included.
C16_ReparseIdenticalRestoresGraph ==
  (iPc = "updated" /\ iOld = iDisk[iFile]) => iGraph = iBefore

\* the ids the changed file had before the update and no longer declares
RemovedIds == {id \in iBefore.symbols : id.file = iFile} \ ParsedSymbols(iFile, iDisk[iFile])

\* C17: after an incremental update the graph holds for the changed file
\* exactly the symbols its new content declares, none of the ids it no
\* longer declares, and no edge with such an id at either end.
C17_UpdateLeavesNoRemovedIds ==
  iPc = "updated" =>
    /\ {id \in iGraph.symbols : id.file = iFile} = ParsedSymbols(iFile, iDisk[iFile])
    /\ RemovedIds \cap iGraph.symbols = {}
    /\ \A e \in iGraph.edges : e.from \notin RemovedIds /\ e.to \notin RemovedIds

\* an update has dropped a symbol that another file called
C17_Witness ==
  /\ iPc = "updated"
  /\ \E e \in iBefore.edges : e.to \in RemovedIds /\ e.from.file # iFile

\* C18: in every review context the Retriever returns, no semantic
\* neighbour is also a changed symbol, a caller or a callee.
C18_NeighboursDisjointFromKnown ==
  rContext # None =>
    Range(rContext[1].semanticNeighbors) \cap
      (Range(rContext[1].changedSymbols) \cup Range(rContext[1].callers)
         \cup Range(rContext[1].callees)) = {}

\* a deep-mode context whose search returned a caller or callee next to a
\* symbol the traversal did not reach, and kept only the latter
C18_Witness ==
  /\ rContext # None
  /\ Range(rResults) \cap
       (Range(rContext[1].callers) \cup Range(rContext[1].callees)) # {}
  /\ rContext[1].semanticNeighbors # <<>>

\* C19: a feedback signal is recorded for (commentId, signal) only when the
\* presented token equals the HMAC of "commentId:signal" under the server
\* secret; a request with any other token is refused and leaves the stored
\* feedback unchanged.
C19_RecordedOnlyWithTheToken ==
  fRequest # None =>
    LET req == fRequest[1]
    IN req.token # mintToken(req.id, req.signal) => (fReply # 200 /\ fStore = fBefore)

\* C20: a client connected to the status stream while the repository's full
\* index runs eventually receives the final done event once the index
\* completes, after which the server closes the stream (unless the client
\* has gone away before).
C20_DoneEventReachesClient ==
  (sseJoined /\ sseIndex \in {"loading", "finished"})
    ~> (\/ DoneProgress \in sseReceived /\ sseStream = "ended"
        \/ sseStream = "closed")

\* C21: concurrent getOrLoadRepo calls for the same not-yet-cached repo all
\* resolve to the one entry that ends up in the graph cache: the entry an
\* incremental update works on is the entry the cache holds.
C21_OneEntryPerRepo ==
  \A t \in 1..Len(tasks) :
    (tasks[t].kind = "index" /\ tasks[t].entry # 0) => tasks[t].entry = cache

\* C22: once DELETE /api/repos/:id has completed, the repo has no entry in
\* the graph cache, whatever was in flight and whatever webhook arrives.
C22_DeletedRepoStaysEvicted == repoDeleted => ~repoCached

\* C23: the response parser never returns a comment whose line number is
\* not an integer >= 1; a block with line 0 or an unparsable line is
\* discarded.
C23_ParsedLinesArePositive ==
  lParsed # None => \A k \in 1..Len(lParsed[1]) : lParsed[1][k].line >= 1

\* where an edit stands in the edit script (every edit stands there once)
EditPos(e) == CHOOSE k \in 1..Len(dResult.edits) : dResult.edits[k] = e
ChangesIn(body) == {k \in 1..Len(body) : IsChange(body[k])}
FirstOf(S) == CHOOSE k \in S : \A h \in S : k <= h
LastOf(S) == CHOOSE k \in S : \A h \in S : k >= h

\* the diff of a,b,c,d,e,f against a,b,X,d,e,f
ExampleDiffed ==
  /\ dPc = "done"
  /\ dOld = <<"a", "b", "c", "d", "e", "f">>
  /\ dNew = <<"a", "b", "X", "d", "e", "f">>

\* C24: a hunk carries 3 unchanged lines before its first and after its
\* last change, fewer only where the file ends; changes whose context
\* windows overlap share a hunk; the header's oldLines and newLines count
\* the lines that are not added and not removed; and the example yields one
\* hunk with the one remove of c at old line 3 and the one add of X at new
\* line 3, additions = 1, deletions = 1.
C24_HunkContextAndMerging ==
  dPc = "done" =>
    LET edits == dResult.edits
        hunks == dResult.hunks
        changed == {k \in 1..Len(edits) : IsChange(edits[k])}
    IN /\ \A h \in 1..Len(hunks) :
            LET body == hunks[h].body
                first == FirstOf(ChangesIn(body))
                last == LastOf(ChangesIn(body))
            IN /\ ChangesIn(body) # {}
               /\ first - 1 = Min(3, EditPos(body[first]) - 1)
               /\ Len(body) - last = Min(3, Len(edits) - EditPos(body[last]))
               /\ hunks[h].oldLines = Cardinality({k \in 1..Len(body) : body[k].type # "add"})
               /\ hunks[h].newLines = Cardinality({k \in 1..Len(body) : body[k].type # "remove"})
       /\ \A p, q \in changed :
            (p < q /\ q - 3 <= p + 3) =>
              \E h \in 1..Len(hunks) : {edits[p], edits[q]} \subseteq Range(hunks[h].body)
       /\ ExampleDiffed =>
            /\ Len(hunks) = 1
            /\ SelectSeq(hunks[1].body, IsRemove) = <<RemoveEdit(3, dOld)>>
            /\ SelectSeq(hunks[1].body, IsAdd) = <<AddEdit(3, dNew)>>
            /\ dResult.additions = 1 /\ dResult.deletions = 1

\* the example has been diffed into its one hunk
C24_Witness == ExampleDiffed /\ Len(dResult.hunks) = 1

NoRepeats(seq) == Cardinality(Range(seq)) = Len(seq)

RequestsOf(review) ==
  [k \in 1..Len(review.comments) |-> InlineCall(review.comments[k])]
    \o <<SummaryCall(review)>>
    \o (IF VoteMap[review.verdict] # 0 THEN <<VoteCall(VoteMap[review.verdict])>> ELSE <<>>)

IsPrefixOf(s, t) == Len(s) <= Len(t) /\ SubSeq(t, 1, Len(s)) = s

\* C26: the host has served the requests of a submitReview in order and
\* without a gap (so the vote, +10 or -5, comes only after every inline
\* comment and the summary were posted, and nothing is sent after a
\* request the host did not serve), and submitReview succeeds exactly when
\* the host served them all
C26_VoteAfterAllPosted ==
  (pPc \in {"posted", "failed"} /\ pSubmitted # None) =>
    LET calls == SubSeq(hostCalls, pCallsBefore + 1, Len(hostCalls))
    IN /\ IsPrefixOf(calls, RequestsOf(pSubmitted[1]))
       /\ (pPc = "posted") <=> (calls = RequestsOf(pSubmitted[1]))

\* C27: the review context handed to the LLM backend carries the graph
\* context runReview obtained from the Retriever (none when no graph is
\* loaded), and a review without a loaded graph that ran to its end was
\* posted
C27_GraphContextReachesLlm ==
  /\ vLlmContext # None => vLlmContext[1].graphContext = rContext
  /\ (rGraph = None /\ vPc = "done") => (vPosted /\ vLlmContext[1].graphContext = None)

\* C28: whatever calls were made on the agent before, postReview(p, result)
\* hands to the host the comments of result whose paths are in the diff of
\* PR p, with the paths of that diff
C28_PostValidatesAgainstItsOwnPR ==
  aPost # None =>
    aPost[1].submitted = ValidComments(aDiffs[aPost[1].pr], aPost[1].comments)

\* the '+' or '-' lines of all hunks, each named by its hunk and its place
LinesOfType(hunks, type) ==
  {hk \in (1..Len(hunks)) \X (1..(2 * MaxHunkLines + 2)) :
     hk[2] <= Len(hunks[hk[1]].body) /\ hunks[hk[1]].body[hk[2]].type = type}

\* C29: every added and every removed line of the edit script stands in
\* exactly one hunk, once; the hunks follow one another in increasing old
\* and new line numbers without sharing a line; and the additions and
\* deletions reported for the file are the numbers of '+' and '-' lines of
\* its hunks.
C29_HunksPartitionTheChanges ==
  dPc = "done" =>
    LET edits == dResult.edits
        hunks == dResult.hunks
    IN /\ \A k \in 1..Len(edits) :
            IsChange(edits[k]) =>
              Cardinality({hk \in LinesOfType(hunks, edits[k].type) :
                             hunks[hk[1]].body[hk[2]] = edits[k]}) = 1
       /\ \A h \in 1..(Len(hunks) - 1) :
            /\ hunks[h].oldStart + hunks[h].oldLines <= hunks[h + 1].oldStart
            /\ hunks[h].newStart + hunks[h].newLines <= hunks[h + 1].newStart
       /\ dResult.additions = Cardinality(LinesOfType(hunks, "add"))
       /\ dResult.deletions = Cardinality(LinesOfType(hunks, "remove"))

\* two changes far apart have been diffed into two hunks
C29_Witness ==
  /\ dPc = "done"
  /\ Len(dResult.hunks) = 2
  /\ dResult.additions >= 1 /\ dResult.deletions >= 1

\* C30 as stated: the second import of the same YAML without overwrite, and
\* the import of the store's own export, leave the store as it was and
\* report 0 imported rules.
C30_SecondImportChangesNothing ==
  mPc \in {"imported twice", "round trip"} => (mStore = mBefore[1] /\ mCount = 0)

AllHaveIds(doc) == \A k \in 1..Len(doc) : doc[k].id # None

\* C30, amended: the second import of a YAML in which every rule carries an
\* id, and the import of the store's own export, leave the store as it was
\* and report 0 imported rules.
C30_SecondImportOfIdentifiedRules ==
  (mPc \in {"imported twice", "round trip"} /\ AllHaveIds(mYaml[1]))
    => (mStore = mBefore[1] /\ mCount = 0)

\* a YAML of rules with ids, one of them new to the store, has been
\* imported twice
C30_Witness ==
  /\ mPc = "imported twice"
  /\ mYaml[1] # <<>> /\ AllHaveIds(mYaml[1])
  /\ \E k \in 1..Len(mYaml[1]) : Rule(mYaml[1][k].id[1], mYaml[1][k].text) \in mStore
  /\ Cardinality(mStore) >= 2

=============================================================================
